---- MODULE Spec2Model ----
(***************************************************************************)
(* A model of the FreeBSD ZFS volume driver, module/os/freebsd/zfs/        *)
(* zvol_os.c: the open/close reference counting of one volume, its locks   *)
(* (zvol_state_lock, zv_state_lock, zv_suspend_lock, spa_namespace_lock,   *)
(* zv_rangelock), removal, rename, and the I/O paths.                      *)
(*                                                                         *)
(* One volume is modelled.  Threads take one step per action; a handler is *)
(* cut where it can block (a lock acquisition, a sleep) and where it holds *)
(* a lock across a call, so that every interleaving of the C code is an    *)
(* interleaving of the actions.  zv_open_count is a uint32_t; it is kept   *)
(* as an integer in which a negative value n stands for the wrapped value  *)
(* 2^32 + n, so that a decrement below zero is visible.                    *)
(***************************************************************************)
EXTENDS Integers, FiniteSets, Sequences, TLC

\* ------------------------------------------------------------------ bounds
\* the largest count one zvol_geom_access call opens or closes
MaxCount == 2
\* the most open references one consumer holds at a time
MaxHeld == 2
\* the largest byte offset (in sectors) and length of an I/O request
MaxOff == 3
MaxLen == 2

\* ----------------------------------------------------------------- threads
Users == {"u1", "u2"}
Remover == "rm"
Admin == "adm"
External == "ext"
NoThread == "none"
Threads == Users \cup {Remover}

GEOM == "ZFS_VOLMODE_GEOM"
DEV == "ZFS_VOLMODE_DEV"

ZVOL_EXCL == "ZVOL_EXCL"
ZVOL_RDONLY == "ZVOL_RDONLY"
ZVOL_REMOVING == "ZVOL_REMOVING"
ZVOL_WRITTEN_TO == "ZVOL_WRITTEN_TO"
FWRITE == "FWRITE"
O_EXCL == "O_EXCL"

VARIABLES
    zv_mem,             \* "none" | "live" | "freed": the zvol_state_t allocation
    registered,         \* zv is in the zvol hash table (zvol_insert / zvol_remove)
    private,            \* pp->private / dev->si_drv2 points at zv
    zsd_cdev,           \* the device node / provider exists
    zv_volmode,
    zv_name,            \* zv_name
    zv_hash,            \* zv_hash
    zv_hlink,           \* the bucket of zvol_htable whose list zv is linked in
    zv_open_count,
    zv_flags,
    zso_dying,
    zv_objset,          \* zv_objset != NULL
    zv_zilog,           \* zv_zilog != NULL
    zil_opens,          \* the calls of zil_open since the log handle was last null
    zvol_state_lock,    \* [r: readers, w: writer]
    zv_state_lock,      \* owner
    zv_suspend_lock,    \* [r: readers, w: writer]
    spa_namespace_lock, \* owner
    zv_rangelock,       \* the active ranges
    pc,                 \* each thread's place in its handler
    lv,                 \* each user thread's locals
    io,                 \* each user thread's I/O request
    held,               \* references each consumer holds through its handle
    exclOwner,          \* the consumer whose O_EXCL open is in force
    wchan,              \* the sleep of zvol_wait_close on channel zv
    zvol_request_sync,  \* the tunable zvol_request_sync
    zvol_maxphys,       \* zvol_maxphys, in sectors
    tqs_taskq           \* zvol_taskqs.tqs_taskq: the tasks each queue holds

vars == <<zv_mem, registered, private, zsd_cdev, zv_volmode, zv_name, zv_hash,
          zv_hlink, zv_open_count,
          zv_flags, zso_dying, zv_objset, zv_zilog, zil_opens, zvol_state_lock,
          zv_state_lock, zv_suspend_lock, spa_namespace_lock, zv_rangelock,
          pc, lv, io, held, exclOwner, wchan, zvol_request_sync, zvol_maxphys,
          tqs_taskq>>

nameVars == <<zv_name, zv_hash, zv_hlink>>
volVars == <<zv_mem, registered, private, zsd_cdev, zv_volmode, nameVars>>
ioVars == <<zv_rangelock, io>>
taskqVars == <<zvol_request_sync, zvol_maxphys, tqs_taskq>>

\* ------------------------------------------------------------- lock helpers
RwFree == [r |-> {}, w |-> NoThread]
\* rw_enter(RW_READER) / rw_tryenter(RW_READER) succeed when no writer holds
RwCanRead(l) == l.w = NoThread
\* rw_enter(RW_WRITER) succeeds when nobody holds
RwCanWrite(l) == l.w = NoThread /\ l.r = {}
RwAddReader(l, t) == [l EXCEPT !.r = @ \cup {t}]
\* the reader keeps the lock
RwDelReader_Kept(l, t) == l
\* rw_exit of a reader
RwDelReader(l, t) == [l EXCEPT !.r = @ \ {t}]
\* rw_tryupgrade succeeds when the caller is the only reader
RwCanUpgrade(l, t) == l.w = NoThread /\ l.r = {t}

NoLocals == [fn |-> "none", flag |-> {}, count |-> 0, drop_suspend |-> FALSE,
             new_open_count |-> 0, err |-> "OK", ns_owned |-> FALSE,
             gone |-> FALSE, saw_excl |-> FALSE, waited |-> FALSE,
             sync |-> FALSE, iosync |-> FALSE, completed |-> 0, fx |-> {},
             commits |-> 0, bsync |-> FALSE]
NoIo == [cmd |-> "none", off |-> 0, len |-> 0]

\* zvol_taskqs: the queues of zvol_strategy_task, all empty
tqs_cnt == 2
NoTasks == [q \in 0..(tqs_cnt - 1) |-> <<>>]

\* the volume is dying, removing, or detached from its device: opens must fail
Gone == zso_dying \/ ZVOL_REMOVING \in zv_flags \/ ~private

\* ---------------------------------------------------------- the hash table
\* the names a volume is created with or renamed to
Names == {"pool/a", "pool/b"}
NoName == "none"
\* zvol_name_hash: the hash of a name
zvol_name_hash(name) == IF name = "pool/a" THEN 6 ELSE 9
\* the buckets of zvol_htable
ZVOL_HT_SIZE == 2
\* ZVOL_HT_HEAD: the bucket of a hash
ZVOL_HT_HEAD(hash) == hash % ZVOL_HT_SIZE

\* ------------------------------------------------------------------- Init
Init ==
    /\ zv_mem = "none"
    /\ registered = FALSE
    /\ private = FALSE
    /\ zsd_cdev = FALSE
    /\ zv_volmode = GEOM
    /\ zv_name = NoName
    /\ zv_hash = 0
    /\ zv_hlink = 0
    /\ zv_open_count = 0
    /\ zv_flags = {}
    /\ zso_dying = FALSE
    /\ zv_objset = FALSE
    /\ zv_zilog = FALSE
    /\ zil_opens = 0
    /\ zvol_state_lock = RwFree
    /\ zv_state_lock = NoThread
    /\ zv_suspend_lock = RwFree
    /\ spa_namespace_lock = NoThread
    /\ zv_rangelock = {}
    /\ pc = [t \in Threads |-> "idle"]
    /\ lv = [t \in Users |-> NoLocals]
    /\ io = [t \in Users |-> NoIo]
    /\ held = [t \in Users |-> 0]
    /\ exclOwner = NoThread
    /\ wchan = "none"
    /\ zvol_request_sync = TRUE
    /\ zvol_maxphys = 1
    /\ tqs_taskq = NoTasks

\* ---------------------------------------------------- zvol_os_create_minor
\* line 1511: the object set is disowned again before the volume is inserted
CreateMinorObjset == FALSE

\* zvol_os_create_minor: on success the volume is allocated (zvol_alloc),
\* read-only when the object set is a snapshot or the pool is not writeable,
\* and inserted with no object set and no log handle; on an error nothing is
\* inserted.
zvol_os_create_minor ==
    /\ zv_mem = "none"
    /\ zvol_state_lock = RwFree
    /\ \E name \in Names, mode \in {GEOM, DEV}, ro \in BOOLEAN, ok \in BOOLEAN :
        IF ok
        THEN /\ zv_mem' = "live"
             /\ registered' = TRUE
             /\ private' = TRUE
             /\ zsd_cdev' = TRUE
             /\ zv_volmode' = mode
             /\ zv_name' = name
             /\ zv_hash' = zvol_name_hash(name)
             /\ zv_hlink' = ZVOL_HT_HEAD(zvol_name_hash(name))
             /\ zv_flags' = IF ro THEN {ZVOL_RDONLY} ELSE {}
             /\ zv_objset' = CreateMinorObjset
             /\ zv_zilog' = FALSE
             /\ zil_opens' = 0
        ELSE UNCHANGED <<volVars, zv_flags, zv_objset, zv_zilog, zil_opens>>
    /\ UNCHANGED <<zv_open_count, zso_dying, zvol_state_lock, zv_state_lock,
                   zv_suspend_lock, spa_namespace_lock, ioVars, taskqVars, pc, lv,
                   held, exclOwner, wchan>>

\* ------------------------------------------- zvol_first_open / zvol_last_close
\* zvol_first_open owns the backing object store: zv_objset becomes non-null
FirstOpenObjset == TRUE
\* zvol_last_close disowns it and closes the log handle
LastCloseObjset == FALSE
\* the errors zvol_first_open can return
FirstOpenErrors == {"ENOENT"}

stateVars == <<zv_open_count, zv_flags, zv_objset, zv_zilog, zil_opens, held, exclOwner, wchan>>

\* wakeup(zv): a thread asleep on the channel becomes runnable
Wakeup(w) == IF w = "asleep" THEN "woken" ELSE w

\* the call returns `err`: the locals keep the result until Return
Ret(t, err) ==
    /\ pc' = [pc EXCEPT ![t] = "ret"]
    /\ lv' = [lv EXCEPT ![t].err = err]

Goto(t, label) == pc' = [pc EXCEPT ![t] = label]

\* the caller may enter with spa_namespace_lock already owned (a zvol opened
\* as a vdev of another pool): mutex_owned(&spa_namespace_lock)
EnterNamespace(t, ns) ==
    IF ns
    THEN spa_namespace_lock = NoThread /\ spa_namespace_lock' = t
    ELSE UNCHANGED spa_namespace_lock

\* --------------------------------------------------------- zvol_geom_open
\* line 139
zpool_on_zvol == FALSE

\* lines 270, 964: mutex_owned(&spa_namespace_lock) on entry happens when a
\* pool is opened on a volume, which zpool_on_zvol rules out
CallerOwnsNamespace == {zpool_on_zvol}

\* line 244: the volume is dying or being removed
GeomOpenGone == zso_dying \/ ZVOL_REMOVING \in zv_flags

\* lines 309-322: the error of an open that got past first open, "OK" if none;
\* inc: dmu_objset_incompatible_encryption_version(zv->zv_objset)
GeomOpenDecide(flag, inc) ==
    IF FWRITE \in flag /\ (ZVOL_RDONLY \in zv_flags \/ inc) THEN "EROFS"
    ELSE IF ZVOL_EXCL \in zv_flags THEN "EBUSY"
    ELSE IF O_EXCL \in flag /\ zv_open_count # 0 THEN "EBUSY"
    ELSE "OK"

\* a failed open does not undo first open
OutOpenedLastClose_Never(cnt) == FALSE

\* lines 328, 1015 (out_opened): an open that leaves no opener undoes first open
OutOpenedLastClose(cnt) == cnt = 0

\* zvol_geom_access, lines 441-489, for an open (count = acr + acw + ace > 0):
\* FWRITE is passed when acw != 0 and O_EXCL never; and the entry of
\* zvol_geom_open, lines 216-226.
zvol_geom_access_open(t) ==
    /\ pc[t] = "idle"
    /\ zv_volmode = GEOM /\ zsd_cdev
    /\ \E count \in 1..MaxCount, w \in BOOLEAN, ns \in CallerOwnsNamespace, probe \in BOOLEAN :
        /\ held[t] + count <= MaxHeld
        /\ EnterNamespace(t, ns)
        /\ lv' = [lv EXCEPT ![t] =
                    [NoLocals EXCEPT !.fn = "zvol_geom_open",
                                     !.flag = IF w THEN {FWRITE} ELSE {},
                                     !.count = count,
                                     !.ns_owned = ns,
                                     !.gone = Gone,
                                     !.err = IF ~private THEN "ENXIO"
                                             ELSE IF ~zpool_on_zvol /\ probe
                                             THEN "EOPNOTSUPP" ELSE "OK"]]
        /\ pc' = [pc EXCEPT ![t] =
                    IF ~private \/ (~zpool_on_zvol /\ probe) THEN "ret"
                    ELSE "go_retry"]
    /\ UNCHANGED <<volVars, stateVars, zso_dying, zvol_state_lock, zv_state_lock,
                   zv_suspend_lock, ioVars, taskqVars>>

\* lines 228-241: retry: take zvol_state_lock as reader and copy pp->private
zvol_geom_open_retry(t) ==
    /\ pc[t] = "go_retry"
    /\ RwCanRead(zvol_state_lock)
    /\ IF ~private
       THEN /\ Ret(t, "ENXIO")
            /\ UNCHANGED zvol_state_lock
       ELSE /\ zvol_state_lock' = RwAddReader(zvol_state_lock, t)
            /\ Goto(t, "go_lock")
            /\ UNCHANGED lv
    /\ UNCHANGED <<volVars, stateVars, zso_dying, zv_state_lock,
                   zv_suspend_lock, spa_namespace_lock, ioVars, taskqVars>>

\* the state lock is kept while the thread waits for the suspend lock
WaitStateLock_Kept(t) == t

\* lines 259, 376, 954 and 1060: mutex_exit(&zv->zv_state_lock) before the
\* rw_enter that may block
WaitStateLock(t) == NoThread

\* no open takes the suspend lock
OpenNeedsSuspend_Never(cnt) == FALSE

\* lines 256 and 951: the suspend lock is taken for a first open:
\* if (zv->zv_open_count == 0)
OpenNeedsSuspend(cnt) == cnt = 0

\* lines 243-269: take zv_state_lock, fail when the volume is going away, and
\* on a first open try the suspend lock; if it is busy drop zv_state_lock to
\* wait for it (zvol_state_lock stays held)
zvol_geom_open_lock(t) ==
    /\ pc[t] = "go_lock"
    /\ zv_state_lock = NoThread
    /\ IF GeomOpenGone
       THEN /\ zvol_state_lock' = RwDelReader(zvol_state_lock, t)
            /\ Ret(t, "ENXIO")
            /\ UNCHANGED <<zv_state_lock, zv_suspend_lock>>
       ELSE IF OpenNeedsSuspend(zv_open_count) /\ ~RwCanRead(zv_suspend_lock)
       THEN /\ lv' = [lv EXCEPT ![t].drop_suspend = TRUE]
            /\ Goto(t, "go_wait")
            /\ zv_state_lock' = WaitStateLock(t)
            /\ UNCHANGED <<zvol_state_lock, zv_suspend_lock>>
       ELSE /\ lv' = [lv EXCEPT ![t].drop_suspend =
                                        OpenNeedsSuspend(zv_open_count)]
            /\ zv_suspend_lock' = IF OpenNeedsSuspend(zv_open_count)
                                  THEN RwAddReader(zv_suspend_lock, t)
                                  ELSE zv_suspend_lock
            /\ zvol_state_lock' = RwDelReader(zvol_state_lock, t)
            /\ zv_state_lock' = t
            /\ Goto(t, "go_first")
    /\ UNCHANGED <<volVars, stateVars, zso_dying, spa_namespace_lock, ioVars, taskqVars>>

\* line 260: rw_enter(&zv->zv_suspend_lock, ZVOL_RW_READER)
zvol_geom_open_wait(t) ==
    /\ pc[t] = "go_wait"
    /\ RwCanRead(zv_suspend_lock)
    /\ zv_suspend_lock' = RwAddReader(zv_suspend_lock, t)
    /\ Goto(t, "go_relock")
    /\ UNCHANGED <<volVars, stateVars, zso_dying, zvol_state_lock, zv_state_lock,
                   spa_namespace_lock, ioVars, taskqVars, lv>>

\* lines 261-269: retake zv_state_lock and check whether the suspend lock is
\* still needed
zvol_geom_open_relock(t) ==
    /\ pc[t] = "go_relock"
    /\ zv_state_lock = NoThread
    /\ zv_state_lock' = t
    /\ IF zv_open_count # 0
       THEN /\ zv_suspend_lock' = RwDelReader(zv_suspend_lock, t)
            /\ lv' = [lv EXCEPT ![t].drop_suspend = FALSE]
       ELSE UNCHANGED <<zv_suspend_lock, lv>>
    /\ zvol_state_lock' = RwDelReader(zvol_state_lock, t)
    /\ Goto(t, "go_first")
    /\ UNCHANGED <<volVars, stateVars, zso_dying, spa_namespace_lock, ioVars, taskqVars>>

\* the suspend lock is kept over the yield
YieldSuspend_Kept(l, t) == l

\* lines 283 and 978: rw_exit(&zv->zv_suspend_lock) before kern_yield
YieldSuspend(l, t) == RwDelReader(l, t)

\* lines 273-301: first open under spa_namespace_lock; if that lock cannot be
\* taken without blocking, drop everything and retry
zvol_geom_open_first(t) ==
    /\ pc[t] = "go_first"
    /\ IF zv_open_count # 0
       THEN /\ Goto(t, "go_checks")
            /\ UNCHANGED <<zv_state_lock, zv_suspend_lock, zv_objset, lv>>
       ELSE IF ~lv[t].ns_owned /\ spa_namespace_lock # NoThread
       THEN /\ zv_state_lock' = NoThread
            /\ zv_suspend_lock' = YieldSuspend(zv_suspend_lock, t)
            /\ lv' = [lv EXCEPT ![t].drop_suspend = FALSE]
            /\ Goto(t, "go_yield")
            /\ UNCHANGED zv_objset
       ELSE \E err \in {"OK"} \cup FirstOpenErrors :
            IF err # "OK"
            THEN /\ zv_state_lock' = NoThread
                 /\ lv' = [lv EXCEPT ![t].err = err]
                 /\ Goto(t, "go_out")
                 /\ UNCHANGED <<zv_suspend_lock, zv_objset>>
            ELSE /\ zv_objset' = FirstOpenObjset
                 /\ Goto(t, "go_checks")
                 /\ UNCHANGED <<zv_state_lock, zv_suspend_lock, lv>>
    /\ UNCHANGED <<volVars, zv_open_count, zv_flags, zv_zilog, zil_opens, held, exclOwner,
                   wchan, zso_dying, zvol_state_lock, spa_namespace_lock, ioVars, taskqVars>>

\* lines 287-288: kern_yield(PRI_USER); goto retry
zvol_geom_open_yield(t) ==
    /\ pc[t] = "go_yield"
    /\ Goto(t, "go_retry")
    /\ UNCHANGED <<volVars, stateVars, zso_dying, zvol_state_lock, zv_state_lock,
                   zv_suspend_lock, spa_namespace_lock, ioVars, taskqVars, lv>>

\* lines 303-333: the read-only and exclusive checks, the count, out_opened
zvol_geom_open_checks(t) ==
    /\ pc[t] = "go_checks"
    /\ \E inc \in BOOLEAN :
        LET err == GeomOpenDecide(lv[t].flag, inc)
            excl == err = "OK" /\ O_EXCL \in lv[t].flag
            cnt == IF err = "OK" THEN zv_open_count + lv[t].count
                   ELSE zv_open_count
            last == OutOpenedLastClose(cnt)
        IN  /\ zv_flags' = IF excl THEN zv_flags \cup {ZVOL_EXCL} ELSE zv_flags
            /\ exclOwner' = IF excl THEN t ELSE exclOwner
            /\ zv_open_count' = cnt
            /\ held' = [held EXCEPT ![t] = @ + (cnt - zv_open_count)]
            /\ zv_objset' = IF last THEN LastCloseObjset ELSE zv_objset
            /\ zv_zilog' = IF last THEN FALSE ELSE zv_zilog
            /\ zil_opens' = IF last THEN 0 ELSE zil_opens
            /\ wchan' = IF last THEN Wakeup(wchan) ELSE wchan
            /\ lv' = [lv EXCEPT ![t].err = err]
    /\ zv_state_lock' = NoThread
    /\ Goto(t, "go_out")
    /\ UNCHANGED <<volVars, zso_dying, zvol_state_lock, zv_suspend_lock,
                   spa_namespace_lock, ioVars, taskqVars>>

\* lines 334-337: out_locked
zvol_geom_open_out(t) ==
    /\ pc[t] = "go_out"
    /\ zv_suspend_lock' = IF lv[t].drop_suspend
                          THEN RwDelReader(zv_suspend_lock, t)
                          ELSE zv_suspend_lock
    /\ Goto(t, "ret")
    /\ UNCHANGED <<volVars, stateVars, zso_dying, zvol_state_lock, zv_state_lock,
                   spa_namespace_lock, ioVars, taskqVars, lv>>

\* the handler has returned: its result has been seen and its locals die
Return(t) ==
    /\ pc[t] = "ret"
    /\ spa_namespace_lock' = IF lv[t].ns_owned THEN NoThread
                             ELSE spa_namespace_lock
    /\ lv' = [lv EXCEPT ![t] = NoLocals]
    /\ io' = [io EXCEPT ![t] = NoIo]
    /\ Goto(t, "idle")
    /\ UNCHANGED <<volVars, stateVars, zso_dying, zvol_state_lock, zv_state_lock,
                   zv_suspend_lock, zv_rangelock, taskqVars>>

\* -------------------------------------------------------- zvol_geom_close
\* line 374: new_open_count = zv->zv_open_count - count
GeomCloseNewCount(cnt, count) == cnt - count

\* the count computed before the state lock was dropped is stored
GeomCloseRecount_Stale(stale, cnt, count) == stale

\* line 381: the count is computed again after zv_state_lock was dropped
GeomCloseRecount(stale, cnt, count) == cnt - count

\* a close leaves the exclusive flag set
CloseFlags_Keep(flags) == flags

\* lines 356-359, 1041-1044: a close drops the exclusive flag
CloseFlags(flags) == flags \ {ZVOL_EXCL}

\* zvol_geom_access, lines 441-489, for a close (count < 0): GEOM closes no
\* more than the consumer holds
zvol_geom_access_close(t) ==
    /\ pc[t] = "idle"
    /\ zv_volmode = GEOM /\ zsd_cdev
    /\ \E count \in 1..MaxCount :
        /\ count <= held[t]
        /\ lv' = [lv EXCEPT ![t] =
                    [NoLocals EXCEPT !.fn = "zvol_geom_close", !.count = count,
                                     !.drop_suspend = TRUE]]
        /\ held' = [held EXCEPT ![t] = IF private THEN @ ELSE @ - count]
    /\ pc' = [pc EXCEPT ![t] = IF private THEN "gc_enter" ELSE "ret"]
    /\ UNCHANGED <<volVars, zv_open_count, zv_flags, zv_objset, zv_zilog, zil_opens,
                   exclOwner, wchan, zso_dying, zvol_state_lock, zv_state_lock,
                   zv_suspend_lock, spa_namespace_lock, ioVars, taskqVars>>

\* lines 348-353
zvol_geom_close_enter(t) ==
    /\ pc[t] = "gc_enter"
    /\ RwCanRead(zvol_state_lock)
    /\ IF ~private
       THEN /\ Ret(t, "ENXIO")
            /\ UNCHANGED zvol_state_lock
       ELSE /\ zvol_state_lock' = RwAddReader(zvol_state_lock, t)
            /\ Goto(t, "gc_lock")
            /\ UNCHANGED lv
    /\ UNCHANGED <<volVars, stateVars, zso_dying, zv_state_lock,
                   zv_suspend_lock, spa_namespace_lock, ioVars, taskqVars>>

\* lines 397-404: store the count; the last close tears down and wakes the
\* waiter; zv_state_lock is released
CloseCommit(t, new, count) ==
    /\ zv_open_count' = new
    /\ held' = [held EXCEPT ![t] = @ - count]
    /\ zv_objset' = IF new = 0 THEN LastCloseObjset ELSE zv_objset
    /\ zv_zilog' = IF new = 0 THEN FALSE ELSE zv_zilog
    /\ zil_opens' = IF new = 0 THEN 0 ELSE zil_opens
    /\ wchan' = IF new = 0 THEN Wakeup(wchan) ELSE wchan
    /\ zv_state_lock' = NoThread

\* lines 355-404: take zv_state_lock, drop the exclusive flag, and on a last
\* close try the suspend lock; if it is busy drop zv_state_lock to wait for it
zvol_geom_close_lock(t) ==
    /\ pc[t] = "gc_lock"
    /\ zv_state_lock = NoThread
    /\ zv_flags' = CloseFlags(zv_flags)
    /\ exclOwner' = IF exclOwner = t THEN NoThread ELSE exclOwner
    /\ LET new == GeomCloseNewCount(zv_open_count, lv[t].count)
       IN  IF new = 0 /\ ~RwCanRead(zv_suspend_lock)
           THEN /\ lv' = [lv EXCEPT ![t].new_open_count = new]
                /\ Goto(t, "gc_wait")
                /\ zv_state_lock' = WaitStateLock(t)
                /\ UNCHANGED <<zv_open_count, held, zv_objset, zv_zilog, zil_opens, wchan,
                               zv_suspend_lock, zvol_state_lock>>
           ELSE /\ lv' = [lv EXCEPT ![t].new_open_count = new,
                                    ![t].drop_suspend = (new = 0)]
                /\ zv_suspend_lock' = IF new = 0
                                      THEN RwAddReader(zv_suspend_lock, t)
                                      ELSE zv_suspend_lock
                /\ zvol_state_lock' = RwDelReader(zvol_state_lock, t)
                /\ CloseCommit(t, new, lv[t].count)
                /\ Goto(t, "gc_out")
    /\ UNCHANGED <<volVars, zso_dying, spa_namespace_lock, ioVars, taskqVars>>

\* line 378
zvol_geom_close_wait(t) ==
    /\ pc[t] = "gc_wait"
    /\ RwCanRead(zv_suspend_lock)
    /\ zv_suspend_lock' = RwAddReader(zv_suspend_lock, t)
    /\ lv' = [lv EXCEPT ![t].waited = TRUE]
    /\ Goto(t, "gc_relock")
    /\ UNCHANGED <<volVars, stateVars, zso_dying, zvol_state_lock, zv_state_lock,
                   spa_namespace_lock, ioVars, taskqVars>>

\* lines 379-404
zvol_geom_close_relock(t) ==
    /\ pc[t] = "gc_relock"
    /\ zv_state_lock = NoThread
    /\ LET new == GeomCloseRecount(lv[t].new_open_count, zv_open_count,
                                   lv[t].count)
       IN  /\ lv' = [lv EXCEPT ![t].new_open_count = new,
                               ![t].drop_suspend = (new = 0)]
           /\ zv_suspend_lock' = IF new # 0
                                 THEN RwDelReader(zv_suspend_lock, t)
                                 ELSE zv_suspend_lock
           /\ CloseCommit(t, new, lv[t].count)
    /\ zvol_state_lock' = RwDelReader(zvol_state_lock, t)
    /\ Goto(t, "gc_out")
    /\ UNCHANGED <<volVars, zv_flags, exclOwner, zso_dying, spa_namespace_lock,
                   ioVars, taskqVars>>

\* lines 406-408
zvol_geom_close_out(t) ==
    /\ pc[t] = "gc_out"
    /\ zv_suspend_lock' = IF lv[t].drop_suspend
                          THEN RwDelReader(zv_suspend_lock, t)
                          ELSE zv_suspend_lock
    /\ Goto(t, "ret")
    /\ UNCHANGED <<volVars, stateVars, zso_dying, zvol_state_lock, zv_state_lock,
                   spa_namespace_lock, ioVars, taskqVars, lv>>

\* --------------------------------------------------------- zvol_cdev_open
\* line 939: only the dying flag is tested
CdevOpenGone == zso_dying

\* the exclusive flag of another opener is not tested
CdevOpenDecide_NoExcl(flag) ==
    IF FWRITE \in flag /\ ZVOL_RDONLY \in zv_flags THEN "EROFS"
    ELSE IF O_EXCL \in flag /\ zv_open_count # 0 THEN "EBUSY"
    ELSE "OK"

\* lines 997-1009
CdevOpenDecide(flag) ==
    IF FWRITE \in flag /\ ZVOL_RDONLY \in zv_flags THEN "EROFS"
    ELSE IF ZVOL_EXCL \in zv_flags THEN "EBUSY"
    ELSE IF O_EXCL \in flag /\ zv_open_count # 0 THEN "EBUSY"
    ELSE "OK"

\* devfs calls d_open for an open(2) of the device node
zvol_cdev_open(t) ==
    /\ pc[t] = "idle"
    /\ zv_volmode = DEV /\ zsd_cdev
    /\ held[t] + 1 <= MaxHeld
    /\ \E flag \in SUBSET {FWRITE, O_EXCL}, ns \in CallerOwnsNamespace :
        /\ EnterNamespace(t, ns)
        /\ lv' = [lv EXCEPT ![t] =
                    [NoLocals EXCEPT !.fn = "zvol_cdev_open", !.flag = flag,
                                     !.count = 1, !.ns_owned = ns,
                                     !.gone = Gone]]
    /\ Goto(t, "co_retry")
    /\ UNCHANGED <<volVars, stateVars, zso_dying, zvol_state_lock, zv_state_lock,
                   zv_suspend_lock, ioVars, taskqVars>>

\* lines 923-936
zvol_cdev_open_retry(t) ==
    /\ pc[t] = "co_retry"
    /\ RwCanRead(zvol_state_lock)
    /\ IF ~private
       THEN /\ Ret(t, "ENXIO")
            /\ UNCHANGED zvol_state_lock
       ELSE /\ zvol_state_lock' = RwAddReader(zvol_state_lock, t)
            /\ Goto(t, "co_lock")
            /\ UNCHANGED lv
    /\ UNCHANGED <<volVars, stateVars, zso_dying, zv_state_lock,
                   zv_suspend_lock, spa_namespace_lock, ioVars, taskqVars>>

\* lines 938-964
zvol_cdev_open_lock(t) ==
    /\ pc[t] = "co_lock"
    /\ zv_state_lock = NoThread
    /\ IF CdevOpenGone
       THEN /\ zvol_state_lock' = RwDelReader(zvol_state_lock, t)
            /\ Ret(t, "ENXIO")
            /\ UNCHANGED <<zv_state_lock, zv_suspend_lock>>
       ELSE IF OpenNeedsSuspend(zv_open_count) /\ ~RwCanRead(zv_suspend_lock)
       THEN /\ lv' = [lv EXCEPT ![t].drop_suspend = TRUE]
            /\ Goto(t, "co_wait")
            /\ zv_state_lock' = WaitStateLock(t)
            /\ UNCHANGED <<zvol_state_lock, zv_suspend_lock>>
       ELSE /\ lv' = [lv EXCEPT ![t].drop_suspend =
                                        OpenNeedsSuspend(zv_open_count)]
            /\ zv_suspend_lock' = IF OpenNeedsSuspend(zv_open_count)
                                  THEN RwAddReader(zv_suspend_lock, t)
                                  ELSE zv_suspend_lock
            /\ zvol_state_lock' = RwDelReader(zvol_state_lock, t)
            /\ zv_state_lock' = t
            /\ Goto(t, "co_first")
    /\ UNCHANGED <<volVars, stateVars, zso_dying, spa_namespace_lock, ioVars, taskqVars>>

\* line 955
zvol_cdev_open_wait(t) ==
    /\ pc[t] = "co_wait"
    /\ RwCanRead(zv_suspend_lock)
    /\ zv_suspend_lock' = RwAddReader(zv_suspend_lock, t)
    /\ Goto(t, "co_relock")
    /\ UNCHANGED <<volVars, stateVars, zso_dying, zvol_state_lock, zv_state_lock,
                   spa_namespace_lock, ioVars, taskqVars, lv>>

\* lines 956-964
zvol_cdev_open_relock(t) ==
    /\ pc[t] = "co_relock"
    /\ zv_state_lock = NoThread
    /\ zv_state_lock' = t
    /\ IF zv_open_count # 0
       THEN /\ zv_suspend_lock' = RwDelReader(zv_suspend_lock, t)
            /\ lv' = [lv EXCEPT ![t].drop_suspend = FALSE]
       ELSE UNCHANGED <<zv_suspend_lock, lv>>
    /\ zvol_state_lock' = RwDelReader(zvol_state_lock, t)
    /\ Goto(t, "co_first")
    /\ UNCHANGED <<volVars, stateVars, zso_dying, spa_namespace_lock, ioVars, taskqVars>>

\* lines 968-993
zvol_cdev_open_first(t) ==
    /\ pc[t] = "co_first"
    /\ IF zv_open_count # 0
       THEN /\ Goto(t, "co_checks")
            /\ UNCHANGED <<zv_state_lock, zv_suspend_lock, zv_objset, lv>>
       ELSE IF ~lv[t].ns_owned /\ spa_namespace_lock # NoThread
       THEN /\ zv_state_lock' = NoThread
            /\ zv_suspend_lock' = YieldSuspend(zv_suspend_lock, t)
            /\ lv' = [lv EXCEPT ![t].drop_suspend = FALSE]
            /\ Goto(t, "co_yield")
            /\ UNCHANGED zv_objset
       ELSE \E err \in {"OK"} \cup FirstOpenErrors :
            IF err # "OK"
            THEN /\ zv_state_lock' = NoThread
                 /\ lv' = [lv EXCEPT ![t].err = err]
                 /\ Goto(t, "co_out")
                 /\ UNCHANGED <<zv_suspend_lock, zv_objset>>
            ELSE /\ zv_objset' = FirstOpenObjset
                 /\ Goto(t, "co_checks")
                 /\ UNCHANGED <<zv_state_lock, zv_suspend_lock, lv>>
    /\ UNCHANGED <<volVars, zv_open_count, zv_flags, zv_zilog, zil_opens, held, exclOwner,
                   wchan, zso_dying, zvol_state_lock, spa_namespace_lock, ioVars, taskqVars>>

\* lines 982-983
zvol_cdev_open_yield(t) ==
    /\ pc[t] = "co_yield"
    /\ Goto(t, "co_retry")
    /\ UNCHANGED <<volVars, stateVars, zso_dying, zvol_state_lock, zv_state_lock,
                   zv_suspend_lock, spa_namespace_lock, ioVars, taskqVars, lv>>

\* lines 995-1020
zvol_cdev_open_checks(t) ==
    /\ pc[t] = "co_checks"
    /\ LET err == CdevOpenDecide(lv[t].flag)
           excl == err = "OK" /\ O_EXCL \in lv[t].flag
           cnt == IF err = "OK" THEN zv_open_count + 1 ELSE zv_open_count
           last == OutOpenedLastClose(cnt)
       IN  /\ zv_flags' = IF excl THEN zv_flags \cup {ZVOL_EXCL} ELSE zv_flags
           /\ exclOwner' = IF excl THEN t ELSE exclOwner
           /\ zv_open_count' = cnt
           /\ held' = [held EXCEPT ![t] = @ + (cnt - zv_open_count)]
           /\ zv_objset' = IF last THEN LastCloseObjset ELSE zv_objset
           /\ zv_zilog' = IF last THEN FALSE ELSE zv_zilog
           /\ zil_opens' = IF last THEN 0 ELSE zil_opens
           /\ wchan' = IF last THEN Wakeup(wchan) ELSE wchan
           /\ lv' = [lv EXCEPT ![t].err = err,
                               ![t].saw_excl = (exclOwner # NoThread)]
    /\ zv_state_lock' = NoThread
    /\ Goto(t, "co_out")
    /\ UNCHANGED <<volVars, zso_dying, zvol_state_lock, zv_suspend_lock,
                   spa_namespace_lock, ioVars, taskqVars>>

\* lines 1021-1024
zvol_cdev_open_out(t) ==
    /\ pc[t] = "co_out"
    /\ zv_suspend_lock' = IF lv[t].drop_suspend
                          THEN RwDelReader(zv_suspend_lock, t)
                          ELSE zv_suspend_lock
    /\ Goto(t, "ret")
    /\ UNCHANGED <<volVars, stateVars, zso_dying, zvol_state_lock, zv_state_lock,
                   spa_namespace_lock, ioVars, taskqVars, lv>>

\* -------------------------------------------------------- zvol_cdev_close
\* line 1058: a close of the only reference is a last close
CdevCloseIsLast(cnt) == cnt = 1

\* line 1079: zv->zv_open_count--
CdevCloseNewCount(cnt) == cnt - 1

\* devfs calls d_close (D_TRACKCLOSE) for each close of an open descriptor
zvol_cdev_close(t) ==
    /\ pc[t] = "idle"
    /\ zv_volmode = DEV /\ zsd_cdev
    /\ held[t] > 0
    /\ lv' = [lv EXCEPT ![t] =
                [NoLocals EXCEPT !.fn = "zvol_cdev_close", !.count = 1,
                                 !.drop_suspend = TRUE]]
    /\ Goto(t, "cc_enter")
    /\ UNCHANGED <<volVars, stateVars, zso_dying, zvol_state_lock, zv_state_lock,
                   zv_suspend_lock, spa_namespace_lock, ioVars, taskqVars>>

\* lines 1033-1038
zvol_cdev_close_enter(t) ==
    /\ pc[t] = "cc_enter"
    /\ RwCanRead(zvol_state_lock)
    /\ IF ~private
       THEN /\ Ret(t, "ENXIO")
            /\ UNCHANGED zvol_state_lock
       ELSE /\ zvol_state_lock' = RwAddReader(zvol_state_lock, t)
            /\ Goto(t, "cc_lock")
            /\ UNCHANGED lv
    /\ UNCHANGED <<volVars, stateVars, zso_dying, zv_state_lock,
                   zv_suspend_lock, spa_namespace_lock, ioVars, taskqVars>>

\* lines 1040-1087
zvol_cdev_close_lock(t) ==
    /\ pc[t] = "cc_lock"
    /\ zv_state_lock = NoThread
    /\ zv_flags' = CloseFlags(zv_flags)
    /\ exclOwner' = IF exclOwner = t THEN NoThread ELSE exclOwner
    /\ LET last == CdevCloseIsLast(zv_open_count)
       IN  IF last /\ ~RwCanRead(zv_suspend_lock)
           THEN /\ Goto(t, "cc_wait")
                /\ zv_state_lock' = WaitStateLock(t)
                /\ UNCHANGED <<zv_open_count, held, zv_objset, zv_zilog, zil_opens, wchan,
                               zv_suspend_lock, zvol_state_lock, lv>>
           ELSE /\ lv' = [lv EXCEPT ![t].drop_suspend = last]
                /\ zv_suspend_lock' = IF last
                                      THEN RwAddReader(zv_suspend_lock, t)
                                      ELSE zv_suspend_lock
                /\ zvol_state_lock' = RwDelReader(zvol_state_lock, t)
                /\ CloseCommit(t, CdevCloseNewCount(zv_open_count), 1)
                /\ Goto(t, "cc_out")
    /\ UNCHANGED <<volVars, zso_dying, spa_namespace_lock, ioVars, taskqVars>>

\* line 1061
zvol_cdev_close_wait(t) ==
    /\ pc[t] = "cc_wait"
    /\ RwCanRead(zv_suspend_lock)
    /\ zv_suspend_lock' = RwAddReader(zv_suspend_lock, t)
    /\ Goto(t, "cc_relock")
    /\ UNCHANGED <<volVars, stateVars, zso_dying, zvol_state_lock, zv_state_lock,
                   spa_namespace_lock, ioVars, taskqVars, lv>>

\* lines 1062-1087
zvol_cdev_close_relock(t) ==
    /\ pc[t] = "cc_relock"
    /\ zv_state_lock = NoThread
    /\ LET last == CdevCloseIsLast(zv_open_count)
       IN  /\ lv' = [lv EXCEPT ![t].drop_suspend = last]
           /\ zv_suspend_lock' = IF ~last
                                 THEN RwDelReader(zv_suspend_lock, t)
                                 ELSE zv_suspend_lock
           /\ CloseCommit(t, CdevCloseNewCount(zv_open_count), 1)
    /\ zvol_state_lock' = RwDelReader(zvol_state_lock, t)
    /\ Goto(t, "cc_out")
    /\ UNCHANGED <<volVars, zv_flags, exclOwner, zso_dying, spa_namespace_lock,
                   ioVars, taskqVars>>

\* lines 1089-1091
zvol_cdev_close_out(t) ==
    /\ pc[t] = "cc_out"
    /\ zv_suspend_lock' = IF lv[t].drop_suspend
                          THEN RwDelReader(zv_suspend_lock, t)
                          ELSE zv_suspend_lock
    /\ Goto(t, "ret")
    /\ UNCHANGED <<volVars, stateVars, zso_dying, zvol_state_lock, zv_state_lock,
                   spa_namespace_lock, ioVars, taskqVars, lv>>

\* --------------------------------------------------------------- removal
\* zvol_os_clear_private, lines 1533-1553: the device stops pointing at zv
ClearPrivate(p) == FALSE

\* A removal request (zvol_remove_minor of zvol.c) starts.
zvol_remove_minor ==
    /\ pc[Remover] = "idle"
    /\ zv_mem = "live" /\ registered
    /\ Goto(Remover, "rm_find")
    /\ UNCHANGED <<volVars, stateVars, zso_dying, zvol_state_lock, zv_state_lock,
                   zv_suspend_lock, spa_namespace_lock, ioVars, taskqVars, lv>>

\* Removal, under zvol_state_lock as writer and zv_state_lock: a volume in use
\* (openers, or an administrative hold) is marked removing and waited for;
\* an unused one is taken out of the table and detached from its device.
zvol_remove_minor_find ==
    /\ pc[Remover] = "rm_find"
    /\ RwCanWrite(zvol_state_lock)
    /\ zv_state_lock = NoThread
    /\ IF zv_open_count # 0 \/ zv_suspend_lock.w = Admin
       THEN /\ zv_flags' = zv_flags \cup {ZVOL_REMOVING}
            /\ Goto(Remover, "wc_enter")
            /\ UNCHANGED <<registered, private>>
       ELSE /\ registered' = FALSE
            /\ private' = ClearPrivate(private)
            /\ Goto(Remover, "rm_free")
            /\ UNCHANGED zv_flags
    /\ UNCHANGED <<zv_mem, zsd_cdev, zv_volmode, nameVars, zv_open_count, zv_objset,
                   zv_zilog, zil_opens, held, exclOwner, wchan, zso_dying, zvol_state_lock,
                   zv_state_lock, zv_suspend_lock, spa_namespace_lock, ioVars, taskqVars, lv>>

\* the dying flag is not set
WaitCloseDying_Unset == FALSE

\* line 432: zv->zv_zso->zso_dying = B_TRUE
WaitCloseDying == TRUE

\* zvol_wait_close, lines 425-438: nothing for a volume that is not a GEOM
\* provider; otherwise mark it dying and, when it has openers, sleep on zv
\* (msleep releases zv_state_lock as it sleeps)
zvol_wait_close ==
    /\ pc[Remover] = "wc_enter"
    /\ IF zv_volmode # GEOM
       THEN /\ Goto(Remover, "rm_find")
            /\ UNCHANGED <<zso_dying, wchan>>
       ELSE /\ zv_state_lock = NoThread
            /\ zso_dying' = WaitCloseDying
            /\ IF zv_open_count # 0
               THEN wchan' = "asleep" /\ Goto(Remover, "wc_sleep")
               ELSE UNCHANGED wchan /\ Goto(Remover, "rm_find")
    /\ UNCHANGED <<volVars, zv_open_count, zv_flags, zv_objset, zv_zilog, zil_opens, held,
                   exclOwner, zvol_state_lock, zv_state_lock, zv_suspend_lock,
                   spa_namespace_lock, ioVars, taskqVars, lv>>

\* line 436: the sleep of msleep(zv, ..., 10*hz) times out
zvol_wait_close_timeout ==
    /\ pc[Remover] = "wc_sleep"
    /\ wchan = "asleep"
    /\ wchan' = "timedout"
    /\ UNCHANGED <<volVars, zv_open_count, zv_flags, zv_objset, zv_zilog, zil_opens, held,
                   exclOwner, zso_dying, zvol_state_lock, zv_state_lock,
                   zv_suspend_lock, spa_namespace_lock, ioVars, taskqVars, pc, lv>>

\* lines 435-437: woken or timed out, msleep retakes zv_state_lock and
\* zvol_wait_close releases it and returns
zvol_wait_close_wake ==
    /\ pc[Remover] = "wc_sleep"
    /\ wchan \in {"woken", "timedout"}
    /\ zv_state_lock = NoThread
    /\ wchan' = "none"
    /\ Goto(Remover, "rm_find")
    /\ UNCHANGED <<volVars, zv_open_count, zv_flags, zv_objset, zv_zilog, zil_opens, held,
                   exclOwner, zso_dying, zvol_state_lock, zv_state_lock,
                   zv_suspend_lock, spa_namespace_lock, ioVars, taskqVars, lv>>

\* zvol_os_free, lines 1393-1432: the locks are destroyed, the device is
\* destroyed and the memory is freed
zvol_os_free ==
    /\ pc[Remover] = "rm_free"
    /\ zv_mem' = "freed"
    /\ zsd_cdev' = FALSE
    /\ Goto(Remover, "idle")
    /\ UNCHANGED <<registered, private, zv_volmode, nameVars, stateVars, zso_dying,
                   zvol_state_lock, zv_state_lock, zv_suspend_lock,
                   spa_namespace_lock, ioVars, taskqVars, lv>>

\* ----------------------------------------------------------------- rename
\* line 1290-1297: in device mode the openers are closed by force
RenameForcesClose(mode, dev, cnt) == mode = DEV /\ dev /\ cnt > 0

\* the entry stays in the list it was in
RenameBucket_Stays(old, hash) == old

\* lines 1259-1260: hlist_del from the old list, hlist_add_head to the list
\* of the bucket of the new hash
RenameBucket(old, hash) == ZVOL_HT_HEAD(hash)

\* zvol_os_rename_minor, lines 1251-1315, called with zvol_state_lock and
\* zv_state_lock held.  In GEOM mode the provider is replaced by one pointing
\* at the same volume.  In device mode destroy_dev waits until no thread is
\* inside a method of the device and kills its open descriptors; openers are
\* closed by force; make_dev_s may fail, leaving no device.
zvol_os_rename_minor ==
    /\ zv_mem = "live" /\ registered
    /\ RwCanRead(zvol_state_lock)
    /\ zv_state_lock = NoThread
    /\ \E newname \in Names \ {zv_name} :
        /\ zv_hash' = zvol_name_hash(newname)
        /\ zv_hlink' = RenameBucket(zv_hlink, zvol_name_hash(newname))
        /\ zv_name' = newname
    /\ IF zv_volmode = GEOM
       THEN UNCHANGED <<zsd_cdev, private, stateVars>>
       ELSE /\ zsd_cdev => \A u \in Users : pc[u] = "idle"
            /\ \E made \in BOOLEAN :
                /\ zsd_cdev' = made
                /\ private' = made
            /\ LET force == RenameForcesClose(zv_volmode, zsd_cdev, zv_open_count)
               IN  /\ zv_flags' = IF force THEN zv_flags \ {ZVOL_EXCL} ELSE zv_flags
                   /\ zv_open_count' = IF force THEN 0 ELSE zv_open_count
                   /\ zv_objset' = IF force THEN LastCloseObjset ELSE zv_objset
                   /\ zv_zilog' = IF force THEN FALSE ELSE zv_zilog
                   /\ zil_opens' = IF force THEN 0 ELSE zil_opens
                   /\ held' = IF zsd_cdev THEN [u \in Users |-> 0] ELSE held
                   /\ exclOwner' = IF zsd_cdev THEN NoThread ELSE exclOwner
            /\ UNCHANGED wchan
    /\ UNCHANGED <<zv_mem, registered, zv_volmode, zso_dying, zvol_state_lock,
                   zv_state_lock, zv_suspend_lock, spa_namespace_lock, ioVars, taskqVars,
                   pc, lv>>

\* --------------------------------------------- administrative operations
\* An administrative operation (zvol_suspend of zvol.c) takes the suspend
\* lock as writer ...
zvol_suspend ==
    /\ zv_mem = "live" /\ registered
    /\ RwCanWrite(zv_suspend_lock)
    /\ zv_suspend_lock' = [zv_suspend_lock EXCEPT !.w = Admin]
    /\ UNCHANGED <<volVars, stateVars, zso_dying, zvol_state_lock, zv_state_lock,
                   spa_namespace_lock, ioVars, taskqVars, pc, lv>>

\* ... and releases it (zvol_resume)
zvol_resume ==
    /\ zv_suspend_lock.w = Admin
    /\ zv_suspend_lock' = [zv_suspend_lock EXCEPT !.w = NoThread]
    /\ UNCHANGED <<volVars, stateVars, zso_dying, zvol_state_lock, zv_state_lock,
                   spa_namespace_lock, ioVars, taskqVars, pc, lv>>

\* another thread of the kernel takes spa_namespace_lock ...
spa_namespace_enter ==
    /\ spa_namespace_lock = NoThread
    /\ spa_namespace_lock' = External
    /\ UNCHANGED <<volVars, stateVars, zso_dying, zvol_state_lock, zv_state_lock,
                   zv_suspend_lock, ioVars, taskqVars, pc, lv>>

\* ... and releases it
spa_namespace_exit ==
    /\ spa_namespace_lock = External
    /\ spa_namespace_lock' = NoThread
    /\ UNCHANGED <<volVars, stateVars, zso_dying, zvol_state_lock, zv_state_lock,
                   zv_suspend_lock, ioVars, taskqVars, pc, lv>>

\* ------------------------------------------------------ the specification
OpenClose(t) ==
    \/ zvol_geom_access_open(t)
    \/ zvol_geom_open_retry(t)
    \/ zvol_geom_open_lock(t)
    \/ zvol_geom_open_wait(t)
    \/ zvol_geom_open_relock(t)
    \/ zvol_geom_open_first(t)
    \/ zvol_geom_open_yield(t)
    \/ zvol_geom_open_checks(t)
    \/ zvol_geom_open_out(t)
    \/ zvol_geom_access_close(t)
    \/ zvol_geom_close_enter(t)
    \/ zvol_geom_close_lock(t)
    \/ zvol_geom_close_wait(t)
    \/ zvol_geom_close_relock(t)
    \/ zvol_geom_close_out(t)
    \/ zvol_cdev_open(t)
    \/ zvol_cdev_open_retry(t)
    \/ zvol_cdev_open_lock(t)
    \/ zvol_cdev_open_wait(t)
    \/ zvol_cdev_open_relock(t)
    \/ zvol_cdev_open_first(t)
    \/ zvol_cdev_open_yield(t)
    \/ zvol_cdev_open_checks(t)
    \/ zvol_cdev_open_out(t)
    \/ zvol_cdev_close(t)
    \/ zvol_cdev_close_enter(t)
    \/ zvol_cdev_close_lock(t)
    \/ zvol_cdev_close_wait(t)
    \/ zvol_cdev_close_relock(t)
    \/ zvol_cdev_close_out(t)
    \/ Return(t)

Removal ==
    \/ zvol_remove_minor
    \/ zvol_remove_minor_find
    \/ zvol_wait_close
    \/ zvol_wait_close_timeout
    \/ zvol_wait_close_wake
    \/ zvol_os_free

Administration ==
    \/ zvol_os_create_minor
    \/ zvol_os_rename_minor
    \/ zvol_suspend
    \/ zvol_resume
    \/ spa_namespace_enter
    \/ spa_namespace_exit

Next ==
    \/ \E t \in Users : OpenClose(t)
    \/ Removal
    \/ Administration

Spec == Init /\ [][Next]_vars

\* ------------------------------------------------------------ properties
Opens == {"zvol_geom_open", "zvol_cdev_open"}
Returned(t, fns) == pc[t] = "ret" /\ lv[t].fn \in fns
HeldTotal == held["u1"] + held["u2"]

\* C1 as stated: once an exclusive open has succeeded, every other open fails
\* with EBUSY until the exclusive opener has closed.
C1_BusyUntilClose ==
    \A t \in Users :
        Returned(t, Opens) /\ lv[t].saw_excl => lv[t].err = "EBUSY"

\* C1 as amended: while an exclusive open is in force (from its success until
\* the opener's close takes the state lock, or a rename closes the device by
\* force) the exclusive flag is set and the opener is the only opener; every
\* other open that reaches the checks fails, with EBUSY, or with EROFS when it
\* asks to write to a read-only volume; and an exclusive open succeeds only
\* when it leaves its caller the only opener.
C1_Exclusive ==
    /\ exclOwner # NoThread =>
        /\ ZVOL_EXCL \in zv_flags
        /\ zv_open_count = 1
        /\ held[exclOwner] = 1
    /\ \A t \in Users :
        /\ Returned(t, Opens) /\ lv[t].saw_excl =>
            /\ lv[t].err \in {"EBUSY", "EROFS"}
            /\ lv[t].err = "EROFS" =>
                FWRITE \in lv[t].flag /\ ZVOL_RDONLY \in zv_flags
        /\ Returned(t, Opens) /\ lv[t].err = "OK" /\ O_EXCL \in lv[t].flag =>
            exclOwner = t /\ HeldTotal = 1

\* C1 witness: an open met an exclusive opener and was refused with EBUSY
C1_Witness ==
    \E t \in Users :
        /\ Returned(t, Opens) /\ lv[t].saw_excl /\ lv[t].err = "EBUSY"
        /\ exclOwner \in Users \ {t}

C6_ExclImpliesOne ==
    zv_state_lock = NoThread /\ ZVOL_EXCL \in zv_flags => zv_open_count = 1

\* C6 witness: an exclusive open has returned and the flag is set
C6_Witness ==
    \E t \in Users :
        /\ Returned(t, Opens) /\ O_EXCL \in lv[t].flag /\ lv[t].err = "OK"
        /\ ZVOL_EXCL \in zv_flags /\ zv_state_lock = NoThread

\* C7: for a registered volume, with the state lock free, the object set is
\* present exactly when the volume is open.
C7_ObjsetIffOpen ==
    zv_mem = "live" /\ registered /\ zv_state_lock = NoThread =>
        (zv_objset <=> zv_open_count > 0)

\* C7 witness: the first open of a volume was refused after zvol_first_open
C7_Witness ==
    \E t \in Users :
        /\ Returned(t, Opens) /\ lv[t].err = "EROFS"
        /\ registered /\ zv_state_lock = NoThread
        /\ zv_open_count = 0 /\ ~zv_objset

\* C8 as stated: an open that starts when the volume is dying or removing, or
\* detached from its device, fails (with ENXIO, the claim says), so that it
\* does not add to the open count.
C8_GoneFails ==
    \A t \in Users : Returned(t, Opens) /\ lv[t].gone => lv[t].err # "OK"

\* C9 as stated: a freed volume has no opener, and no thread holds its state
\* lock or its suspend lock.
C9_FreedUnused ==
    zv_mem = "freed" =>
        /\ zv_open_count = 0
        /\ zv_state_lock = NoThread
        /\ zv_suspend_lock = RwFree

\* --------------------------------------------- removal under fair scheduling
\* A thread that holds zv_state_lock keeps running until it releases it.
HoldingStateLock(t) ==
    \/ zvol_geom_open_first(t)
    \/ zvol_geom_open_checks(t)
    \/ zvol_cdev_open_first(t)
    \/ zvol_cdev_open_checks(t)

\* The sleep of msleep ends after 10*hz ticks at the latest; a thread waiting
\* in mutex_enter gets the mutex if it is released again and again.
LiveFairness ==
    /\ \A t \in Users : WF_vars(HoldingStateLock(t))
    /\ WF_vars(zvol_wait_close_timeout)
    /\ SF_vars(zvol_wait_close)
    /\ SF_vars(zvol_wait_close_wake)

\* one consumer beside the removal and the administrative threads
LiveUsers == {"u1"}

LiveNext ==
    \/ \E t \in LiveUsers : OpenClose(t)
    \/ Removal
    \/ Administration

LiveSpec == Init /\ [][LiveNext]_vars /\ LiveFairness

InWaitClose == pc[Remover] \in {"wc_enter", "wc_sleep"}

\* C10 as stated: once zvol_wait_close has returned the volume is dying.
C10_DyingAfterWait ==
    pc[Remover] = "rm_find" /\ ZVOL_REMOVING \in zv_flags => zso_dying

\* C10 as amended: zvol_wait_close always returns; for a GEOM volume it has
\* set the dying flag when it sleeps or returns, it returns at once when the
\* volume has no opener, and while it sleeps unwoken the volume has an opener
\* (the wakeup of the last close is not lost); for a volume of another mode
\* it returns at once and leaves the dying flag alone.
C10_WaitCloseReturns ==
    /\ [](pc[Remover] = "wc_sleep" => zso_dying /\ zv_volmode = GEOM)
    /\ [](wchan = "asleep" => zv_open_count > 0)
    /\ [][pc[Remover] = "wc_enter" /\ pc'[Remover] # "wc_enter" =>
            /\ zv_volmode = GEOM => zso_dying'
            /\ zv_volmode # GEOM => zso_dying' = zso_dying
            /\ zv_open_count = 0 \/ zv_volmode # GEOM => pc'[Remover] = "rm_find"]_vars
    /\ InWaitClose ~> pc[Remover] = "rm_find"

\* C10 witness: the last close woke the sleeping zvol_wait_close
C10_Witness ==
    /\ pc[Remover] = "wc_sleep" /\ wchan = "woken"
    /\ zv_open_count = 0

\* ============================================================== I/O paths
\* the size of the volume, in blocks
VolSize == 2
Offsets == 0..MaxOff
Lengths == 0..MaxLen
BioCmds == {"BIO_READ", "BIO_WRITE", "BIO_FLUSH", "BIO_DELETE", "BIO_GETATTR"}
Seeks == {"FIOSEEKHOLE", "FIOSEEKDATA"}
IoctlCmds == {"DIOCGFLUSH", "DIOCGDELETE", "DIOCGSECTORSIZE", "OTHER"} \cup Seeks

\* what no I/O path changes
ioFrame == <<volVars, zv_open_count, zv_objset, held, exclOwner, wchan,
             zso_dying, zvol_state_lock, zv_state_lock, spa_namespace_lock,
             taskqVars>>

\* ----------------------------------------------------------- range lock
\* two spans [off, off+len) share a byte
Overlap(o1, l1, o2, l2) == l1 > 0 /\ l2 > 0 /\ o1 < o2 + l2 /\ o2 < o1 + l1

\* an active range of another thread that a request of this type must wait for
RangeConflict(t, off, len, type) ==
    \E r \in zv_rangelock :
        /\ r.t # t
        /\ Overlap(off, len, r.off, r.len)
        /\ (type = "RL_WRITER" \/ r.type = "RL_WRITER")

\* zfs_rangelock_enter: wait for every conflicting range, then become active
zfs_rangelock_enter(t, off, len, type) ==
    /\ ~RangeConflict(t, off, len, type)
    /\ zv_rangelock' = zv_rangelock \cup
                        {[t |-> t, off |-> off, len |-> len, type |-> type]}

\* zfs_rangelock_exit
zfs_rangelock_exit(t) ==
    zv_rangelock' = {r \in zv_rangelock : r.t # t}

\* ------------------------------------------------------- the object store
\* line 154: zvol_maxphys, the most one transaction of a transfer moves
\* (DMU_MAX_ACCESS >> 1 at lines 831 and 884), is one sector or two
ChunkSizes == {1, 2}

\* the errors a call into the object store returns
StoreErrors == {"ECKSUM", "EIO"}
\* the call of a transfer that fails: none (0), or the n-th
FailPoints == 0..(MaxLen + 1)

Min(a, b) == IF a < b THEN a ELSE b

\* lines 697-699 and 840-842: checksum errors are turned into I/O errors
Cksum2Io(e) == IF e = "ECKSUM" THEN "EIO" ELSE e

\* what a request did to the object store and to the log: <<kind, off, len>>
Fx(kind, off, len) == <<kind, off, len>>

\* lines 678-705, s = [off, resid, err, fx]: the n-th chunk of a read is
\* dmu_read_by_dnode, of a write a transaction holding dmu_write_by_dnode and
\* zvol_log_write; a failed call ends the loop
RECURSIVE StrategyLoop(_, _, _, _, _)
StrategyLoop(doread, s, n, failAt, serr) ==
    IF s.resid # 0 /\ s.off < VolSize
    THEN LET size == Min(s.resid, zvol_maxphys)
         IN  IF n = failAt
             THEN [s EXCEPT !.err = Cksum2Io(serr),
                            !.fx = @ \cup
                                IF doread THEN {}
                                ELSE {Fx("tx_abort", s.off, size)}]
             ELSE StrategyLoop(doread,
                    [s EXCEPT !.off = @ + size,
                              !.resid = @ - size,
                              !.fx = @ \cup
                                IF doread THEN {Fx("read", s.off, size)}
                                ELSE {Fx("write", s.off, size),
                                      Fx("log_write", s.off, size),
                                      Fx("tx_commit", s.off, size)}],
                    n + 1, failAt, serr)
    ELSE s

\* the span is cut at the end of the volume before it is freed
StrategyDelete_Clipped(s, failAt, serr) ==
    LET len == Min(s.resid, VolSize - s.off)
    IN  IF failAt = 1
        THEN [s EXCEPT !.err = serr]
        ELSE [s EXCEPT !.resid = 0,
                       !.err = IF failAt = 2 THEN serr ELSE "OK",
                       !.fx = {Fx("log_truncate", s.off, len),
                               Fx("free", s.off, len)}]

\* lines 664-677: BIO_DELETE is one transaction that logs the truncation,
\* then dmu_free_long_range over the span as given; resid is cleared once
\* the transaction was assigned
StrategyDelete(s, failAt, serr) ==
    IF failAt = 1
    THEN [s EXCEPT !.err = serr]
    ELSE [s EXCEPT !.resid = 0,
                   !.err = IF failAt = 2 THEN serr ELSE "OK",
                   !.fx = {Fx("log_truncate", s.off, s.resid),
                           Fx("free", s.off, s.resid)}]

\* a transfer that failed reports no byte
StrategyData_AllOrNothing(cmd, off, len, failAt, serr) ==
    LET s0 == [off |-> off, resid |-> len, err |-> "OK", fx |-> {}]
        s  == IF cmd = "BIO_DELETE" THEN StrategyDelete(s0, failAt, serr)
              ELSE StrategyLoop(cmd = "BIO_READ", s0, 1, failAt, serr)
    IN  [err |-> s.err,
         completed |-> IF s.err = "OK" THEN len - s.resid ELSE 0,
         fx |-> s.fx]

\* lines 664-711: the transfer of zvol_strategy_impl and what it reports:
\* bio_completed = bio_length - resid, and EINVAL for a transfer cut short
\* beyond the end of the volume
StrategyData(cmd, off, len, failAt, serr) ==
    LET s0 == [off |-> off, resid |-> len, err |-> "OK", fx |-> {}]
        s  == IF cmd = "BIO_DELETE" THEN StrategyDelete(s0, failAt, serr)
              ELSE StrategyLoop(cmd = "BIO_READ", s0, 1, failAt, serr)
        completed == len - s.resid
    IN  [err |-> IF completed < len /\ s.off > VolSize THEN "EINVAL"
                 ELSE s.err,
         completed |-> completed,
         fx |-> s.fx]

\* lines 830-845: zvol_cdev_read reads chunks that end at the end of the
\* volume at the latest
RECURSIVE CdevReadLoop(_, _, _, _)
CdevReadLoop(s, n, failAt, serr) ==
    IF s.resid > 0 /\ s.off < VolSize
    THEN LET bytes == Min(Min(s.resid, zvol_maxphys), VolSize - s.off)
         IN  IF n = failAt
             THEN [s EXCEPT !.err = Cksum2Io(serr)]
             ELSE CdevReadLoop([s EXCEPT !.off = @ + bytes,
                                         !.resid = @ - bytes,
                                         !.fx = @ \cup
                                            {Fx("read", s.off, bytes)}],
                               n + 1, failAt, serr)
    ELSE s

\* lines 883-905: zvol_cdev_write writes chunks that end at the end of the
\* volume at the latest; calls 2n-1 and 2n of the store are dmu_tx_assign
\* and dmu_write_uio_dnode of the n-th chunk; the error of either is
\* returned as it is; the transaction is aborted when dmu_tx_assign fails
\* (892-895) and committed once assigned, whatever dmu_write_uio_dnode
\* returns (897-900)
RECURSIVE CdevWriteLoop(_, _, _, _)
CdevWriteLoop(s, n, failAt, serr) ==
    IF s.resid > 0 /\ s.off < VolSize
    THEN LET bytes == Min(Min(s.resid, zvol_maxphys), VolSize - s.off)
         IN  IF failAt = 2 * n - 1
             THEN [s EXCEPT !.err = serr,
                            !.fx = @ \cup {Fx("tx_abort", s.off, bytes)}]
             ELSE IF failAt = 2 * n
             THEN [s EXCEPT !.err = serr,
                            !.fx = @ \cup {Fx("tx_commit", s.off, bytes)}]
             ELSE CdevWriteLoop([s EXCEPT !.off = @ + bytes,
                                          !.resid = @ - bytes,
                                          !.fx = @ \cup
                                            {Fx("write", s.off, bytes),
                                             Fx("log_write", s.off, bytes),
                                             Fx("tx_commit", s.off, bytes)}],
                                n + 1, failAt, serr)
    ELSE s

\* the character device moves the chunks of zvol_strategy_impl, which are not
\* cut at the end of the volume
CdevData_Uncut(cmd, off, len, failAt, serr) ==
    StrategyData(IF cmd = "read" THEN "BIO_READ" ELSE "BIO_WRITE",
                 off, len, failAt, serr)

\* every chunk whose transaction is committed gets a record in the log
CdevData_LoggedAnyway(cmd, off, len, failAt, serr) ==
    LET s0 == [off |-> off, resid |-> len, err |-> "OK", fx |-> {}]
        s  == IF cmd = "read" THEN CdevReadLoop(s0, 1, failAt, serr)
              ELSE CdevWriteLoop(s0, 1, failAt, serr)
    IN  [err |-> s.err, completed |-> len - s.resid,
         fx |-> s.fx \cup {Fx("log_write", f[2], f[3]) :
                             f \in {g \in s.fx : g[1] = "tx_commit"}}]

\* what zvol_cdev_read and zvol_cdev_write report: the error, and through
\* the uio the bytes moved (start_resid - resid, lines 847 and 907)
CdevData(cmd, off, len, failAt, serr) ==
    LET s0 == [off |-> off, resid |-> len, err |-> "OK", fx |-> {}]
        s  == IF cmd = "read" THEN CdevReadLoop(s0, 1, failAt, serr)
              ELSE CdevWriteLoop(s0, 1, failAt, serr)
    IN  [err |-> s.err, completed |-> len - s.resid, fx |-> s.fx]

\* lines 1141-1152: DIOCGDELETE is one transaction that logs the truncation,
\* then dmu_free_long_range over the span as given; sync is set when the
\* transaction was assigned and the object set has sync=always
DeleteData(off, len, failAt, serr, always) ==
    IF failAt = 1
    THEN [err |-> serr, fx |-> {}, sync |-> FALSE]
    ELSE [err |-> IF failAt = 2 THEN serr ELSE "OK",
          fx |-> {Fx("log_truncate", off, len), Fx("free", off, len)},
          sync |-> always]

\* ------------------------------------------------------ zvol_ensure_zilog
\* line 648: a transfer that starts at the end of the volume, or nowhere
StrategyOutOfRange_Beyond(off, len) == len > 0 /\ off > VolSize

\* line 648: resid > 0 && off >= volsize
StrategyOutOfRange(off, len) == len > 0 /\ off >= VolSize

\* where the caller of zvol_ensure_zilog goes on, sl being the suspend lock
\* as zvol_ensure_zilog leaves it (held as reader):
\* zvol_strategy_impl, lines 631-654: a flush goes to commit; a request at or
\* past the end fails with EIO;
\* zvol_cdev_write, line 881, and DIOCGDELETE, line 1139: the range lock.
\* l: the locals of the thread, with what zvol_ensure_zilog did
ZilogDone(t, sl, l) ==
    IF l.fn = "zvol_strategy_impl"
    THEN IF io[t].cmd = "BIO_FLUSH"
         THEN /\ zv_suspend_lock' = sl
              /\ Goto(t, "st_commit")
              /\ lv' = [lv EXCEPT ![t] = l]
         ELSE IF StrategyOutOfRange(io[t].off, io[t].len)
         THEN /\ zv_suspend_lock' = RwDelReader(sl, t)
              /\ Goto(t, "ret")
              /\ lv' = [lv EXCEPT ![t] = [l EXCEPT !.err = "EIO"]]
         ELSE /\ zv_suspend_lock' = sl
              /\ Goto(t, "st_range")
              /\ lv' = [lv EXCEPT ![t] = l]
    ELSE /\ zv_suspend_lock' = sl
         /\ Goto(t, IF l.fn = "zvol_cdev_write" THEN "cw_range"
                    ELSE "dl_range")
         /\ lv' = [lv EXCEPT ![t] = l]

\* lines 1227-1232: nothing to do when the log is open; otherwise upgrade the
\* suspend lock, or release it to take it as writer
zvol_ensure_zilog(t) ==
    /\ pc[t] = "ez_try"
    /\ IF zv_zilog
       THEN ZilogDone(t, zv_suspend_lock, lv[t])
       ELSE /\ IF RwCanUpgrade(zv_suspend_lock, t)
               THEN /\ zv_suspend_lock' = [r |-> {}, w |-> t]
                    /\ Goto(t, "ez_open")
               ELSE /\ zv_suspend_lock' = RwDelReader(zv_suspend_lock, t)
                    /\ Goto(t, "ez_wait")
            /\ UNCHANGED lv
    /\ UNCHANGED <<ioFrame, zv_flags, zv_zilog, zil_opens, ioVars>>

\* line 1231: rw_enter(&zv->zv_suspend_lock, RW_WRITER)
zvol_ensure_zilog_wait(t) ==
    /\ pc[t] = "ez_wait"
    /\ RwCanWrite(zv_suspend_lock)
    /\ zv_suspend_lock' = [r |-> {}, w |-> t]
    /\ Goto(t, "ez_open")
    /\ UNCHANGED <<ioFrame, zv_flags, zv_zilog, zil_opens, ioVars, lv>>

\* the log is opened whether or not another thread has opened it
ZilogMissing_Always(z) == TRUE

\* line 1233: the second test, if (zv->zv_zilog == NULL), made as writer
ZilogMissing(z) == ~z

\* lines 1233-1241: open the log unless another thread did, and downgrade
zvol_ensure_zilog_open(t) ==
    /\ pc[t] = "ez_open"
    /\ zv_zilog' = TRUE
    /\ zil_opens' = IF ZilogMissing(zv_zilog) THEN zil_opens + 1 ELSE zil_opens
    /\ zv_flags' = IF ZilogMissing(zv_zilog)
                   THEN zv_flags \cup {ZVOL_WRITTEN_TO} ELSE zv_flags
    /\ ZilogDone(t, [r |-> {t}, w |-> NoThread], lv[t])
    /\ UNCHANGED <<ioFrame, ioVars>>

\* ----------------------------------------------------- zvol_strategy_impl
\* the range is taken as writer for everything but a read
StrategyLockType_Reader(cmd) == "RL_READER"

\* line 662: doread ? RL_READER : RL_WRITER
StrategyLockType(cmd) == IF cmd = "BIO_READ" THEN "RL_READER" ELSE "RL_WRITER"

\* the range is taken from the start of the volume
StrategyLockSpan_FromStart(off, len) == [off |-> 0, len |-> off + len]

\* line 661: the span of the request, bp->bio_offset and bp->bio_length
StrategyLockSpan(off, len) == [off |-> off, len |-> len]

\* zvol_geom_bio_start, lines 491-508: GEOM hands a request of an opener to
\* the provider; BIO_GETATTR is answered by zvol_geom_bio_getattr, with
\* EOPNOTSUPP for an attribute it does not know; any other request goes to
\* zvol_geom_bio_strategy, sync telling whether this thread may sleep.
\* The request comes from an opener, or when the provider no longer points
\* at the volume, from a consumer that has closed it
zvol_geom_bio_start(t) ==
    /\ pc[t] = "idle"
    /\ zv_mem = "live" /\ zv_volmode = GEOM /\ zsd_cdev
    /\ held[t] > 0 \/ ~private
    /\ \E cmd \in BioCmds, off \in Offsets, len \in Lengths,
          sync \in BOOLEAN, known \in BOOLEAN :
        /\ io' = [io EXCEPT ![t] = [cmd |-> cmd, off |-> off, len |-> len]]
        /\ IF ~private
           THEN /\ pc' = [pc EXCEPT ![t] = "ret"]
                /\ lv' = [lv EXCEPT ![t] =
                            [NoLocals EXCEPT !.fn = "zvol_geom_bio_start",
                                             !.err = "ENXIO"]]
           ELSE IF cmd = "BIO_GETATTR"
           THEN /\ pc' = [pc EXCEPT ![t] = "ret"]
                /\ lv' = [lv EXCEPT ![t] =
                            [NoLocals EXCEPT !.fn = "zvol_geom_bio_start",
                                             !.err = IF known THEN "OK"
                                                     ELSE "EOPNOTSUPP"]]
           ELSE /\ Goto(t, "bs_strategy")
                /\ lv' = [lv EXCEPT ![t] =
                            [NoLocals EXCEPT !.fn = "zvol_geom_bio_strategy",
                                             !.bsync = sync]]
    /\ UNCHANGED <<ioFrame, zv_flags, zv_zilog, zil_opens, zv_suspend_lock, zv_rangelock>>

\* zvol_cdev_bio_strategy, lines 794-798: d_strategy of the device node
zvol_cdev_bio_strategy(t) ==
    /\ pc[t] = "idle"
    /\ zv_mem = "live" /\ zv_volmode = DEV /\ zsd_cdev
    /\ held[t] > 0 \/ ~private
    /\ \E cmd \in BioCmds, off \in Offsets, len \in Lengths :
        io' = [io EXCEPT ![t] = [cmd |-> cmd, off |-> off, len |-> len]]
    /\ Goto(t, "bs_strategy")
    /\ lv' = [lv EXCEPT ![t] =
                [NoLocals EXCEPT !.fn = "zvol_geom_bio_strategy",
                                 !.bsync = FALSE]]
    /\ UNCHANGED <<ioFrame, zv_flags, zv_zilog, zil_opens, zv_suspend_lock, zv_rangelock>>

\* the processors a request is submitted on
Cpus == {0, 1}
\* the address of the zvol_state_t
zv_addr == 1
\* ZVOL_TASKQ_OFFSET_SHIFT: the requests of 2^shift sectors share a queue
ZVOL_TASKQ_OFFSET_SHIFT == 1
\* cityhash3: a hash of three words
cityhash3(w1, w2, w3) == w1 * 5 + w2 * 3 + w3 * 7

\* every request goes to the first queue
TaskqIndex_First(cpu, off) == 0

\* lines 786-788: the queue of a request
TaskqIndex(cpu, off) ==
    cityhash3(zv_addr, cpu, off \div 2^ZVOL_TASKQ_OFFSET_SHIFT) % tqs_cnt

\* line 781: sync || zvol_request_sync
BioInline(sync, request_sync) == sync \/ request_sync

\* zvol_geom_bio_strategy, lines 752-792: a request for no volume fails; a
\* request that may run here is handed to zvol_strategy_impl in this thread;
\* any other is dispatched to the queue of its hash, the task holding the
\* request
zvol_geom_bio_strategy(t) ==
    /\ pc[t] = "bs_strategy"
    /\ IF ~private
       THEN /\ pc' = [pc EXCEPT ![t] = "ret"]
            /\ lv' = [lv EXCEPT ![t] =
                        [NoLocals EXCEPT !.fn = "zvol_geom_bio_strategy",
                                         !.err = "ENXIO"]]
            /\ UNCHANGED tqs_taskq
       ELSE IF BioInline(lv[t].bsync, zvol_request_sync)
       THEN /\ Goto(t, "st_enter")
            /\ lv' = [lv EXCEPT ![t] =
                        [NoLocals EXCEPT !.fn = "zvol_strategy_impl"]]
            /\ UNCHANGED tqs_taskq
       ELSE /\ \E cpu \in Cpus :
                tqs_taskq' = [tqs_taskq EXCEPT ![TaskqIndex(cpu, io[t].off)] =
                                Append(@, [t |-> t, cpu |-> cpu])]
            /\ Goto(t, "tq_queued")
            /\ lv' = [lv EXCEPT ![t] =
                        [NoLocals EXCEPT !.fn = "zvol_strategy_task"]]
    /\ UNCHANGED <<volVars, zv_open_count, zv_objset, held, exclOwner, wchan,
                   zso_dying, zvol_state_lock, zv_state_lock,
                   spa_namespace_lock, zvol_request_sync, zvol_maxphys,
                   zv_flags, zv_zilog,
                   zil_opens, zv_suspend_lock, ioVars>>

\* taskq_dispatch_ent, line 790: a queue runs its tasks first in, first out
TaskqTake(queue) == Tail(queue)

\* zvol_strategy_task, lines 743-750: a thread of queue q runs the oldest
\* task: zvol_strategy_impl for the request the task holds
zvol_strategy_task(q) ==
    /\ tqs_taskq[q] # <<>>
    /\ LET t == Head(tqs_taskq[q]).t
       IN  /\ Goto(t, "st_enter")
           /\ lv' = [lv EXCEPT ![t] =
                       [NoLocals EXCEPT !.fn = "zvol_strategy_impl"]]
    /\ tqs_taskq' = [tqs_taskq EXCEPT ![q] = TaskqTake(@)]
    /\ UNCHANGED <<volVars, zv_open_count, zv_objset, held, exclOwner, wchan,
                   zso_dying, zvol_state_lock, zv_state_lock,
                   spa_namespace_lock, zvol_request_sync, zvol_maxphys,
                   zv_flags, zv_zilog,
                   zil_opens, zv_suspend_lock, ioVars>>

\* the removal of the volume is not looked at
StrategyGone_Never(flags) == FALSE

\* line 614: zv->zv_flags & ZVOL_REMOVING
StrategyGone(flags) == ZVOL_REMOVING \in flags

\* lines 612-654 up to zvol_ensure_zilog
zvol_strategy_impl(t) ==
    /\ pc[t] = "st_enter"
    /\ RwCanRead(zv_suspend_lock)
    /\ IF StrategyGone(zv_flags)
       THEN Ret(t, "ENXIO") /\ UNCHANGED zv_suspend_lock
       ELSE IF io[t].cmd = "BIO_READ"
       THEN IF StrategyOutOfRange(io[t].off, io[t].len)
            THEN Ret(t, "EIO") /\ UNCHANGED zv_suspend_lock
            ELSE /\ zv_suspend_lock' = RwAddReader(zv_suspend_lock, t)
                 /\ Goto(t, "st_range")
                 /\ UNCHANGED lv
       ELSE IF io[t].cmd \in {"BIO_WRITE", "BIO_FLUSH", "BIO_DELETE"}
       THEN IF ZVOL_RDONLY \in zv_flags
            THEN Ret(t, "EROFS") /\ UNCHANGED zv_suspend_lock
            ELSE /\ zv_suspend_lock' = RwAddReader(zv_suspend_lock, t)
                 /\ Goto(t, "ez_try")
                 /\ UNCHANGED lv
       ELSE Ret(t, "EOPNOTSUPP") /\ UNCHANGED zv_suspend_lock
    /\ UNCHANGED <<ioFrame, zv_flags, zv_zilog, zil_opens, ioVars>>

\* lines 661-662: zfs_rangelock_enter
zvol_strategy_rangelock(t) ==
    /\ pc[t] = "st_range"
    /\ LET span == StrategyLockSpan(io[t].off, io[t].len)
       IN  zfs_rangelock_enter(t, span.off, span.len,
                               StrategyLockType(io[t].cmd))
    /\ Goto(t, "st_access")
    /\ UNCHANGED <<ioFrame, zv_flags, zv_zilog, zil_opens, zv_suspend_lock, io, lv>>

\* everything but a read is committed
StrategyCommit_Always(cmd, sync) == cmd # "BIO_READ"

\* line 653: commit = !doread && !is_dumpified && os_sync == ZFS_SYNC_ALWAYS
StrategyCommit(cmd, sync) == cmd # "BIO_READ" /\ sync

\* lines 654-735: the object set is read, written or freed, the range lock
\* is released, and without a commit the suspend lock is released;
\* always: the value of os_sync == ZFS_SYNC_ALWAYS that line 655 read (the
\* property can change at any time, so the value read is any value, and it
\* is chosen here, where it is first used)
zvol_strategy_access(t) ==
    /\ pc[t] = "st_access"
    /\ zfs_rangelock_exit(t)
    /\ \E failAt \in FailPoints, serr \in StoreErrors, always \in BOOLEAN :
        LET d == StrategyData(io[t].cmd, io[t].off, io[t].len, failAt, serr)
            l == [lv[t] EXCEPT !.err = d.err, !.completed = d.completed,
                               !.fx = d.fx,
                               !.sync = io[t].cmd # "BIO_READ" /\ always]
        IN  /\ lv' = [lv EXCEPT ![t] = l]
            /\ IF StrategyCommit(io[t].cmd, always)
               THEN /\ Goto(t, "st_commit")
                    /\ UNCHANGED zv_suspend_lock
               ELSE /\ zv_suspend_lock' = RwDelReader(zv_suspend_lock, t)
                    /\ Goto(t, "ret")
    /\ UNCHANGED <<ioFrame, zv_flags, zv_zilog, zil_opens, io>>

\* lines 731-735: zil_commit, then the suspend lock is released
zvol_strategy_commit(t) ==
    /\ pc[t] = "st_commit"
    /\ zv_suspend_lock' = RwDelReader(zv_suspend_lock, t)
    /\ Goto(t, "ret")
    /\ lv' = [lv EXCEPT ![t].commits = @ + 1]
    /\ UNCHANGED <<ioFrame, zv_flags, zv_zilog, zil_opens, ioVars>>

\* --------------------------------------------------------- zvol_cdev_read
\* lines 822-823 and 870-871: a transfer that starts past the end of the
\* volume fails; one that starts at the end is the end of file
CdevOutOfRange(off, len) == len > 0 /\ off > VolSize

\* lines 817-824: devfs calls d_read for an opener; a read that starts past
\* the end of the volume fails
zvol_cdev_read(t) ==
    /\ pc[t] = "idle"
    /\ zv_mem = "live" /\ zv_volmode = DEV /\ zsd_cdev /\ held[t] > 0
    /\ \E off \in Offsets, len \in Lengths :
        /\ io' = [io EXCEPT ![t] = [cmd |-> "read", off |-> off, len |-> len]]
        /\ lv' = [lv EXCEPT ![t] =
                    [NoLocals EXCEPT !.fn = "zvol_cdev_read",
                                     !.err = IF CdevOutOfRange(off, len)
                                             THEN "EIO" ELSE "OK"]]
        /\ pc' = [pc EXCEPT ![t] = IF CdevOutOfRange(off, len) THEN "ret"
                                   ELSE "cr_enter"]
    /\ UNCHANGED <<ioFrame, zv_flags, zv_zilog, zil_opens, zv_suspend_lock, zv_rangelock>>

\* line 826: rw_enter(&zv->zv_suspend_lock, ZVOL_RW_READER)
zvol_cdev_read_enter(t) ==
    /\ pc[t] = "cr_enter"
    /\ RwCanRead(zv_suspend_lock)
    /\ zv_suspend_lock' = RwAddReader(zv_suspend_lock, t)
    /\ Goto(t, "cr_range")
    /\ UNCHANGED <<ioFrame, zv_flags, zv_zilog, zil_opens, ioVars, lv>>

\* lines 828-829: zfs_rangelock_enter as reader
zvol_cdev_read_rangelock(t) ==
    /\ pc[t] = "cr_range"
    /\ zfs_rangelock_enter(t, io[t].off, io[t].len, "RL_READER")
    /\ Goto(t, "cr_access")
    /\ UNCHANGED <<ioFrame, zv_flags, zv_zilog, zil_opens, zv_suspend_lock, io, lv>>

\* lines 830-849: the reads, zfs_rangelock_exit, rw_exit
zvol_cdev_read_access(t) ==
    /\ pc[t] = "cr_access"
    /\ zfs_rangelock_exit(t)
    /\ zv_suspend_lock' = RwDelReader(zv_suspend_lock, t)
    /\ \E failAt \in FailPoints, serr \in StoreErrors :
        LET d == CdevData("read", io[t].off, io[t].len, failAt, serr)
        IN  lv' = [lv EXCEPT ![t].err = d.err, ![t].completed = d.completed,
                             ![t].fx = d.fx]
    /\ Goto(t, "ret")
    /\ UNCHANGED <<ioFrame, zv_flags, zv_zilog, zil_opens, io>>

\* -------------------------------------------------------- zvol_cdev_write
\* lines 863-872: devfs calls d_write for an opener
zvol_cdev_write(t) ==
    /\ pc[t] = "idle"
    /\ zv_mem = "live" /\ zv_volmode = DEV /\ zsd_cdev /\ held[t] > 0
    /\ \E off \in Offsets, len \in Lengths :
        /\ io' = [io EXCEPT ![t] = [cmd |-> "write", off |-> off, len |-> len]]
        /\ lv' = [lv EXCEPT ![t] =
                    [NoLocals EXCEPT !.fn = "zvol_cdev_write",
                                     !.err = IF CdevOutOfRange(off, len)
                                             THEN "EIO" ELSE "OK"]]
        /\ pc' = [pc EXCEPT ![t] = IF CdevOutOfRange(off, len) THEN "ret"
                                   ELSE "cw_sync"]
    /\ UNCHANGED <<ioFrame, zv_flags, zv_zilog, zil_opens, zv_suspend_lock, zv_rangelock>>

\* lines 875-876: commit is computed from zv->zv_objset->os_sync
zvol_cdev_write_sync(t) ==
    /\ pc[t] = "cw_sync"
    /\ Goto(t, "cw_enter")
    /\ UNCHANGED <<ioFrame, zv_flags, zv_zilog, zil_opens, zv_suspend_lock, ioVars, lv>>

\* line 878: rw_enter(&zv->zv_suspend_lock, ZVOL_RW_READER)
zvol_cdev_write_enter(t) ==
    /\ pc[t] = "cw_enter"
    /\ RwCanRead(zv_suspend_lock)
    /\ zv_suspend_lock' = RwAddReader(zv_suspend_lock, t)
    /\ Goto(t, "ez_try")
    /\ UNCHANGED <<ioFrame, zv_flags, zv_zilog, zil_opens, ioVars, lv>>

\* lines 881-882: zfs_rangelock_enter as writer
zvol_cdev_write_rangelock(t) ==
    /\ pc[t] = "cw_range"
    /\ zfs_rangelock_enter(t, io[t].off, io[t].len, "RL_WRITER")
    /\ Goto(t, "cw_access")
    /\ UNCHANGED <<ioFrame, zv_flags, zv_zilog, zil_opens, zv_suspend_lock, io, lv>>

\* lines 875-876: commit = (ioflag & IO_SYNC) || os_sync == ZFS_SYNC_ALWAYS
CdevWriteCommit(iosync, always) == iosync \/ always

\* lines 883-910: the writes, zfs_rangelock_exit;
\* iosync, always: IO_SYNC in ioflag, and the value of os_sync ==
\* ZFS_SYNC_ALWAYS that line 876 read (chosen here, where first used)
zvol_cdev_write_access(t) ==
    /\ pc[t] = "cw_access"
    /\ zfs_rangelock_exit(t)
    /\ \E failAt \in FailPoints, serr \in StoreErrors,
          iosync \in BOOLEAN, always \in BOOLEAN :
        LET d == CdevData("write", io[t].off, io[t].len, failAt, serr)
        IN  /\ lv' = [lv EXCEPT ![t].err = d.err,
                                ![t].completed = d.completed,
                                ![t].fx = d.fx,
                                ![t].iosync = iosync, ![t].sync = always]
            /\ IF CdevWriteCommit(iosync, always)
               THEN /\ Goto(t, "cw_commit")
                    /\ UNCHANGED zv_suspend_lock
               ELSE /\ zv_suspend_lock' = RwDelReader(zv_suspend_lock, t)
                    /\ Goto(t, "ret")
    /\ UNCHANGED <<ioFrame, zv_flags, zv_zilog, zil_opens, io>>

\* lines 910-913: zil_commit, rw_exit
zvol_cdev_write_commit(t) ==
    /\ pc[t] = "cw_commit"
    /\ zv_suspend_lock' = RwDelReader(zv_suspend_lock, t)
    /\ Goto(t, "ret")
    /\ lv' = [lv EXCEPT ![t].commits = @ + 1]
    /\ UNCHANGED <<ioFrame, zv_flags, zv_zilog, zil_opens, ioVars>>

\* -------------------------------------------------------- zvol_cdev_ioctl
\* lines 1124-1136: the checks of DIOCGDELETE (zvol_unmap_enabled is set)
DeleteInvalid(off, len) == off >= VolSize \/ len <= 0

\* lines 1094-1211: devfs calls d_ioctl for an opener
zvol_cdev_ioctl(t) ==
    /\ pc[t] = "idle"
    /\ zv_mem = "live" /\ zv_volmode = DEV /\ zsd_cdev /\ held[t] > 0
    /\ \E cmd \in IoctlCmds, off \in Offsets, len \in Lengths :
        /\ cmd # "DIOCGDELETE" => off = 0 /\ len = 0
        /\ io' = [io EXCEPT ![t] = [cmd |-> cmd, off |-> off, len |-> len]]
        /\ lv' = [lv EXCEPT ![t] =
                    [NoLocals EXCEPT
                        !.fn = "zvol_cdev_ioctl",
                        !.err = IF cmd = "OTHER" THEN "ENOIOCTL"
                                ELSE IF cmd = "DIOCGDELETE"
                                        /\ DeleteInvalid(off, len)
                                THEN "EINVAL" ELSE "OK"]]
        /\ pc' = [pc EXCEPT ![t] =
                    IF cmd = "DIOCGFLUSH" THEN "fl_enter"
                    ELSE IF cmd = "DIOCGDELETE" /\ ~DeleteInvalid(off, len)
                    THEN "dl_enter"
                    ELSE IF cmd \in Seeks THEN "sk_range"
                    ELSE "ret"]
    /\ UNCHANGED <<ioFrame, zv_flags, zv_zilog, zil_opens, zv_suspend_lock, zv_rangelock>>

\* line 1118: DIOCGFLUSH takes the suspend lock as reader
zvol_cdev_ioctl_flush(t) ==
    /\ pc[t] = "fl_enter"
    /\ RwCanRead(zv_suspend_lock)
    /\ zv_suspend_lock' = RwAddReader(zv_suspend_lock, t)
    /\ Goto(t, "fl_commit")
    /\ UNCHANGED <<ioFrame, zv_flags, zv_zilog, zil_opens, ioVars, lv>>

\* lines 1119-1121: zil_commit if the log is open, rw_exit
zvol_cdev_ioctl_flush_commit(t) ==
    /\ pc[t] = "fl_commit"
    /\ zv_suspend_lock' = RwDelReader(zv_suspend_lock, t)
    /\ Goto(t, "ret")
    /\ lv' = [lv EXCEPT ![t].commits = IF zv_zilog THEN @ + 1 ELSE @]
    /\ UNCHANGED <<ioFrame, zv_flags, zv_zilog, zil_opens, ioVars>>

\* line 1137: DIOCGDELETE takes the suspend lock as reader
zvol_cdev_ioctl_delete(t) ==
    /\ pc[t] = "dl_enter"
    /\ RwCanRead(zv_suspend_lock)
    /\ zv_suspend_lock' = RwAddReader(zv_suspend_lock, t)
    /\ Goto(t, "ez_try")
    /\ UNCHANGED <<ioFrame, zv_flags, zv_zilog, zil_opens, ioVars, lv>>

\* lines 1139-1140: zfs_rangelock_enter as writer
zvol_cdev_ioctl_delete_rangelock(t) ==
    /\ pc[t] = "dl_range"
    /\ zfs_rangelock_enter(t, io[t].off, io[t].len, "RL_WRITER")
    /\ Goto(t, "dl_access")
    /\ UNCHANGED <<ioFrame, zv_flags, zv_zilog, zil_opens, zv_suspend_lock, io, lv>>

\* lines 1141-1156: the range is freed, zfs_rangelock_exit; sync is set when
\* the transaction was assigned and the object set has sync=always (always,
\* which the locals keep)
zvol_cdev_ioctl_delete_access(t) ==
    /\ pc[t] = "dl_access"
    /\ zfs_rangelock_exit(t)
    /\ \E failAt \in FailPoints, serr \in StoreErrors, always \in BOOLEAN :
        LET d == DeleteData(io[t].off, io[t].len, failAt, serr, always)
        IN  /\ lv' = [lv EXCEPT ![t].err = d.err, ![t].fx = d.fx,
                                ![t].sync = always]
            /\ IF d.sync
               THEN /\ Goto(t, "dl_commit")
                    /\ UNCHANGED zv_suspend_lock
               ELSE /\ zv_suspend_lock' = RwDelReader(zv_suspend_lock, t)
                    /\ Goto(t, "ret")
    /\ UNCHANGED <<ioFrame, zv_flags, zv_zilog, zil_opens, io>>

\* lines 1154-1157: zil_commit, rw_exit
zvol_cdev_ioctl_delete_commit(t) ==
    /\ pc[t] = "dl_commit"
    /\ zv_suspend_lock' = RwDelReader(zv_suspend_lock, t)
    /\ Goto(t, "ret")
    /\ lv' = [lv EXCEPT ![t].commits = @ + 1]
    /\ UNCHANGED <<ioFrame, zv_flags, zv_zilog, zil_opens, ioVars>>

\* line 1199: the span of a seek, 0 to UINT64_MAX, covers every request
SeekLen == MaxOff + MaxLen

\* lines 1199-1200: FIOSEEKHOLE and FIOSEEKDATA take the whole range as
\* reader, and no suspend lock
zvol_cdev_ioctl_seek(t) ==
    /\ pc[t] = "sk_range"
    /\ zfs_rangelock_enter(t, 0, SeekLen, "RL_READER")
    /\ Goto(t, "sk_access")
    /\ UNCHANGED <<ioFrame, zv_flags, zv_zilog, zil_opens, zv_suspend_lock, io, lv>>

\* lines 1201-1203: dmu_offset_next, zfs_rangelock_exit
zvol_cdev_ioctl_seek_access(t) ==
    /\ pc[t] = "sk_access"
    /\ zfs_rangelock_exit(t)
    /\ \E err \in {"OK", "ESRCH"} : Ret(t, err)
    /\ UNCHANGED <<ioFrame, zv_flags, zv_zilog, zil_opens, zv_suspend_lock, io>>

\* ------------------------------------------- the specification of the I/O
\* a volume that both consumers have opened: the object set is owned, the log
\* is not opened before the first write; its removal has been requested
IOOpen ==
    /\ zv_mem = "live"
    /\ registered = TRUE
    /\ private = TRUE
    /\ zsd_cdev = TRUE
    /\ zv_volmode \in {GEOM, DEV}
    /\ zv_name = "pool/a"
    /\ zv_hash = zvol_name_hash(zv_name)
    /\ zv_hlink = ZVOL_HT_HEAD(zv_hash)
    /\ zv_open_count = 2
    /\ held = [t \in Users |-> 1]
    /\ zv_flags \in {{}, {ZVOL_RDONLY}}
    /\ zso_dying = FALSE
    /\ zv_objset = FirstOpenObjset
    /\ zv_zilog = FALSE
    /\ zil_opens = 0
    /\ zvol_state_lock = RwFree
    /\ zv_state_lock = NoThread
    /\ zv_suspend_lock = RwFree
    /\ spa_namespace_lock = NoThread
    /\ zv_rangelock = {}
    /\ pc = [t \in Threads |-> IF t = Remover THEN "rm_find" ELSE "idle"]
    /\ lv = [t \in Users |-> NoLocals]
    /\ io = [t \in Users |-> NoIo]
    /\ exclOwner = NoThread
    /\ wchan = "none"
    /\ zvol_request_sync = TRUE
    /\ tqs_taskq = NoTasks

\* a transaction moves one sector
IOInit == IOOpen /\ zvol_maxphys = 1

\* a transaction moves one sector or two
ReqInit == IOOpen /\ zvol_maxphys \in ChunkSizes

\* the steps of a request that meets no other request
ReqStep(t) ==
    \/ zvol_geom_bio_start(t)
    \/ zvol_cdev_bio_strategy(t)
    \/ zvol_geom_bio_strategy(t)
    \/ zvol_strategy_impl(t)
    \/ zvol_strategy_rangelock(t)
    \/ zvol_strategy_access(t)
    \/ zvol_strategy_commit(t)
    \/ zvol_ensure_zilog(t)
    \/ zvol_ensure_zilog_open(t)
    \/ zvol_cdev_read(t)
    \/ zvol_cdev_read_enter(t)
    \/ zvol_cdev_read_rangelock(t)
    \/ zvol_cdev_read_access(t)
    \/ zvol_cdev_write(t)
    \/ zvol_cdev_write_sync(t)
    \/ zvol_cdev_write_enter(t)
    \/ zvol_cdev_write_rangelock(t)
    \/ zvol_cdev_write_access(t)
    \/ zvol_cdev_write_commit(t)
    \/ zvol_cdev_ioctl(t)
    \/ zvol_cdev_ioctl_flush(t)
    \/ zvol_cdev_ioctl_flush_commit(t)
    \/ zvol_cdev_ioctl_delete(t)
    \/ zvol_cdev_ioctl_delete_rangelock(t)
    \/ zvol_cdev_ioctl_delete_access(t)
    \/ zvol_cdev_ioctl_delete_commit(t)
    \/ zvol_cdev_ioctl_seek(t)
    \/ zvol_cdev_ioctl_seek_access(t)
    \/ Return(t)

\* line 1231 waits for the other readers of the suspend lock
IoStep(t) ==
    \/ ReqStep(t)
    \/ zvol_ensure_zilog_wait(t)

\* two consumers whose requests start inside the volume
IONext ==
    \/ \E t \in Users : IoStep(t) /\ io'[t].off < VolSize
    \/ zvol_suspend
    \/ zvol_resume
    \/ zvol_remove_minor_find

SpecIO == IOInit /\ [][IONext]_vars

\* the requests of one consumer, beside suspension and removal
ReqUsers == {"u1"}

ReqNext ==
    \/ \E t \in ReqUsers : ReqStep(t)
    \/ zvol_suspend
    \/ zvol_resume
    \/ zvol_remove_minor_find

SpecReq == ReqInit /\ [][ReqNext]_vars

\* the requests of one sector that GEOM and devfs submit when
\* zvol_request_sync may be unset: two consumers that both hold the volume
\* open, or that have both closed it, the threads of the queues, and the
\* removal of the volume
DispatchInit ==
    /\ zv_mem = "live"
    /\ registered = TRUE
    /\ private = TRUE
    /\ zsd_cdev = TRUE
    /\ zv_volmode \in {GEOM, DEV}
    /\ zv_name = "pool/a"
    /\ zv_hash = zvol_name_hash(zv_name)
    /\ zv_hlink = ZVOL_HT_HEAD(zv_hash)
    /\ \E n \in {0, 1} :
        /\ held = [t \in Users |-> n]
        /\ zv_open_count = 2 * n
        /\ zv_objset = IF n = 0 THEN LastCloseObjset ELSE FirstOpenObjset
    /\ zv_flags = {}
    /\ zso_dying = FALSE
    /\ zv_zilog = FALSE
    /\ zil_opens = 0
    /\ zvol_state_lock = RwFree
    /\ zv_state_lock = NoThread
    /\ zv_suspend_lock = RwFree
    /\ spa_namespace_lock = NoThread
    /\ zv_rangelock = {}
    /\ pc = [t \in Threads |-> IF t = Remover THEN "rm_find" ELSE "idle"]
    /\ lv = [t \in Users |-> NoLocals]
    /\ io = [t \in Users |-> NoIo]
    /\ exclOwner = NoThread
    /\ wchan = "none"
    /\ zvol_request_sync \in BOOLEAN
    /\ zvol_maxphys = 1
    /\ tqs_taskq = NoTasks

DispatchStep(t) ==
    \/ zvol_geom_bio_start(t)
    \/ zvol_cdev_bio_strategy(t)
    \/ zvol_geom_bio_strategy(t)
    \/ zvol_strategy_impl(t)
    \/ zvol_strategy_rangelock(t)
    \/ zvol_strategy_access(t)
    \/ zvol_strategy_commit(t)
    \/ zvol_ensure_zilog(t)
    \/ zvol_ensure_zilog_open(t)
    \/ zvol_ensure_zilog_wait(t)
    \/ Return(t)

DispatchNext ==
    \/ \E t \in Users : DispatchStep(t) /\ (io'[t] = NoIo \/ io'[t].len = 1)
    \/ \E q \in DOMAIN tqs_taskq : zvol_strategy_task(q)
    \/ zvol_remove_minor_find

SpecDispatch == DispatchInit /\ [][DispatchNext]_vars

\* ------------------------------------------------- properties of the I/O
\* the thread is between zfs_rangelock_enter and zfs_rangelock_exit
InSection(t) ==
    pc[t] \in {"st_access", "cr_access", "cw_access", "dl_access", "sk_access"}

\* the span its request reads or changes
SpanOff(t) == IF io[t].cmd \in Seeks THEN 0 ELSE io[t].off
SpanLen(t) == IF io[t].cmd \in Seeks THEN SeekLen ELSE io[t].len
IsRead(t) == io[t].cmd \in {"BIO_READ", "read"} \cup Seeks
HasSpan(t) ==
    io[t].cmd \in {"BIO_READ", "BIO_WRITE", "BIO_DELETE", "read", "write",
                   "DIOCGDELETE"}
Overlapping(t, u) == Overlap(SpanOff(t), SpanLen(t), SpanOff(u), SpanLen(u))

\* C3: two requests inside their range-locked sections have overlapping spans
\* only if both are reads; a write or an unmap is alone on its span.
C3_RangeExclusion ==
    \A t, u \in Users :
        t # u /\ InSection(t) /\ InSection(u) /\ Overlapping(t, u) =>
            IsRead(t) /\ IsRead(u)

\* C3 witness: an unmap is inside its section while a request on an
\* overlapping span waits for the range lock
C3_Witness ==
    \E t, u \in Users :
        /\ t # u
        /\ pc[t] = "st_access" /\ io[t].cmd = "BIO_DELETE"
        /\ pc[u] = "st_range" /\ Overlapping(t, u)

\* the thread is reading or changing the object set or the log
Accessing(t) ==
    \/ InSection(t)
    \/ pc[t] \in {"st_commit", "cw_commit", "dl_commit", "cw_sync", "ez_open"}
    \/ pc[t] = "fl_commit" /\ zv_zilog

\* C4 as stated: while an administrative thread holds the suspend lock as
\* writer, no I/O path is reading or changing the object set or the log.
C4_SuspendExcludesIO ==
    zv_suspend_lock.w = Admin => \A t \in Users : ~Accessing(t)

\* the next step of t waits for a lock that u holds
BlockedBy(t, u) ==
    \/ /\ pc[t] \in {"st_range", "cr_range", "cw_range", "dl_range", "sk_range"}
       /\ \E r \in zv_rangelock :
            /\ r.t = u
            /\ LET span == IF lv[t].fn = "zvol_strategy_impl"
                           THEN StrategyLockSpan(io[t].off, io[t].len)
                           ELSE [off |-> SpanOff(t), len |-> SpanLen(t)]
               IN  Overlap(span.off, span.len, r.off, r.len)
            /\ (~IsRead(t) \/ r.type = "RL_WRITER")
    \/ /\ pc[t] \in {"st_enter", "cr_enter", "cw_enter", "fl_enter", "dl_enter"}
       /\ zv_suspend_lock.w = u
    \/ /\ pc[t] = "ez_wait"
       /\ u \in zv_suspend_lock.r \/ zv_suspend_lock.w = u

\* two requests in flight on spans that share no byte
Disjoint(t, u) ==
    /\ t # u
    /\ HasSpan(t) /\ HasSpan(u)
    /\ pc[t] # "ret" /\ pc[u] # "ret"
    /\ SpanLen(t) > 0 /\ SpanLen(u) > 0
    /\ ~Overlapping(t, u)

\* C5 as stated: of two requests on disjoint spans neither waits for a lock
\* the other holds.
C5_DisjointNeverWait ==
    \A t, u \in Users : Disjoint(t, u) => ~BlockedBy(t, u)

\* C5 as amended: two requests on disjoint spans never wait for each other at
\* the range lock; one waits for the other only around the opening of the
\* log by zvol_ensure_zilog: the thread that found no log waits for the
\* suspend lock as writer, or holds it as writer while it opens the log.
C5_DisjointWaitOnlyForLog ==
    \A t, u \in Users :
        Disjoint(t, u) /\ BlockedBy(t, u) =>
            \/ pc[t] = "ez_wait"
            \/ zv_suspend_lock.w = u /\ pc[u] = "ez_open"

\* C5 witness: two writes on disjoint spans are inside their sections together
C5_Witness ==
    \E t, u \in Users :
        /\ Disjoint(t, u)
        /\ ~IsRead(t) /\ ~IsRead(u)
        /\ InSection(t) /\ InSection(u)

\* ------------------------------------------- properties of single requests
Transfers == {"BIO_READ", "BIO_WRITE", "read", "write"}
Writes == {"BIO_WRITE", "write"}
Deletes == {"BIO_DELETE", "DIOCGDELETE"}
ByStrategy(t) ==
    lv[t].fn \in {"zvol_strategy_impl", "zvol_geom_bio_strategy",
                  "zvol_geom_bio_start"}
Done(t) == pc[t] = "ret"
\* a read or a write of some bytes that starts at or past the end
PastEnd(t) == io[t].cmd \in Transfers /\ io[t].len > 0 /\ io[t].off >= VolSize

\* C11 as stated: a read or a write of some bytes at or past the end of the
\* volume fails, moves no byte, and reaches neither the object set nor the
\* log, through zvol_strategy_impl and through zvol_cdev_read/write alike.
C11_PastEndFails ==
    \A t \in Users :
        Done(t) /\ PastEnd(t) =>
            lv[t].err # "OK" /\ lv[t].completed = 0 /\ lv[t].fx = {}

\* C11 as amended: such a request moves no byte and reaches neither the
\* object set nor the log; zvol_strategy_impl fails it, with EIO unless the
\* volume is being removed (ENXIO) or it is a write to a read-only volume
\* (EROFS); zvol_cdev_read/write fail it with EIO when it starts past the
\* end, and return success when it starts at the end.
C11_PastEndMovesNothing ==
    \A t \in Users :
        Done(t) /\ PastEnd(t) =>
            /\ lv[t].completed = 0 /\ lv[t].fx = {}
            /\ ByStrategy(t) =>
                /\ lv[t].err \in {"EIO", "ENXIO", "EROFS"}
                /\ lv[t].err = "ENXIO" => ZVOL_REMOVING \in zv_flags \/ ~private
                /\ lv[t].err = "EROFS" =>
                    io[t].cmd = "BIO_WRITE" /\ ZVOL_RDONLY \in zv_flags
            /\ ~ByStrategy(t) =>
                lv[t].err = IF io[t].off > VolSize THEN "EIO" ELSE "OK"

\* C11 witness: a zvol_cdev_write of some bytes at the end of the volume has
\* returned success
C11_Witness ==
    \E t \in Users :
        /\ Done(t) /\ io[t].cmd = "write"
        /\ io[t].len > 0 /\ io[t].off = VolSize
        /\ lv[t].err = "OK"

\* C12 as stated: a write, a flush or an unmap on a read-only volume fails
\* and has no effect: nothing is written, freed, logged or committed, and
\* the log is not opened.
C12_ReadOnlyRefused ==
    ZVOL_RDONLY \in zv_flags =>
        /\ ~zv_zilog
        /\ \A t \in Users :
            Done(t) /\ io[t].cmd \in Writes \cup Deletes \cup {"BIO_FLUSH"} =>
                lv[t].err # "OK" /\ lv[t].fx = {} /\ lv[t].commits = 0

\* the request is past the test of ZVOL_REMOVING and works on the volume:
\* it waits for or holds the range lock, reads or changes the object set,
\* or opens the log
Working(t) ==
    /\ lv[t].fn = "zvol_strategy_impl"
    /\ pc[t] \in {"st_range", "st_access", "st_commit", "ez_try", "ez_wait",
                  "ez_open"}

\* C13 as stated: while a volume is marked for removal no request of
\* zvol_strategy_impl takes the range lock, reaches the object set or opens
\* the log.
C13_RemovingNoWork ==
    ZVOL_REMOVING \in zv_flags => \A t \in Users : ~Working(t)

\* C13 as amended: a request of zvol_strategy_impl that finds the volume
\* marked for removal when it has taken the suspend lock returns ENXIO, and
\* has taken no range lock, reached neither the object set nor the log and
\* opened no log; the mark is tested then and not again.
C13_RemovingOnEntry ==
    /\ [][\A t \in Users :
            pc[t] = "st_enter" /\ pc'[t] # "st_enter"
            /\ ZVOL_REMOVING \in zv_flags =>
                /\ pc'[t] = "ret" /\ lv'[t].err = "ENXIO"
                /\ lv'[t].fx = {} /\ lv'[t].completed = 0
                /\ lv'[t].commits = 0
                /\ UNCHANGED <<zv_rangelock, zv_zilog, zil_opens, zv_suspend_lock>>]_vars
    /\ [][\A t \in Users :
            pc[t] = "st_enter" /\ pc'[t] # "st_enter"
            /\ ZVOL_REMOVING \notin zv_flags => lv'[t].err # "ENXIO"]_vars
    /\ [](\A t \in Users :
            Done(t) /\ lv[t].fn = "zvol_strategy_impl"
            /\ lv[t].err = "ENXIO" => ZVOL_REMOVING \in zv_flags)

\* C13 witness: a request has returned ENXIO from a volume marked for removal
C13_Witness ==
    \E t \in Users :
        /\ Done(t) /\ lv[t].fn = "zvol_strategy_impl"
        /\ lv[t].err = "ENXIO" /\ ZVOL_REMOVING \in zv_flags

\* an unmap of some bytes
Unmap(t) == io[t].cmd \in Deletes /\ io[t].len > 0
\* the spans the request freed in the object set
Freed(t) == {f \in lv[t].fx : f[1] = "free"}

Written(t) == {f \in lv[t].fx : f[1] = "write"}
RECURSIVE SumLen(_)
SumLen(S) ==
    IF S = {} THEN 0
    ELSE LET f == CHOOSE x \in S : TRUE IN f[3] + SumLen(S \ {f})
\* the bytes of the request that lie inside the volume
Inside(t) ==
    IF io[t].off >= VolSize THEN 0 ELSE Min(io[t].len, VolSize - io[t].off)
\* the chunks written follow one another from the start of the request, each
\* of some bytes and of zvol_maxphys at most
Chained(t) ==
    \A f \in Written(t) :
        /\ f[3] > 0 /\ f[3] <= zvol_maxphys
        /\ f[2] = io[t].off \/ \E g \in Written(t) : g[2] + g[3] = f[2]

Flushes == {"BIO_FLUSH", "DIOCGFLUSH"}
\* the request holds a range of the range lock
HoldsRange(t) == \E r \in zv_rangelock : r.t = t
\* the request asks for durability: a flush, or a write or an unmap under
\* sync=always or with IO_SYNC
Demand(t) ==
    \/ io[t].cmd \in Flushes
    \/ io[t].cmd \in (Writes \cup Deletes) /\ (lv[t].sync \/ lv[t].iosync)
\* the request asks for durability and was carried out: a flush that was
\* admitted, with the log open for DIOCGFLUSH; a write that reached its
\* transfer; an unmap that reached it, with its transaction assigned for
\* DIOCGDELETE
Owed(t) ==
    \/ io[t].cmd = "BIO_FLUSH" /\ lv[t].err = "OK"
    \/ io[t].cmd = "DIOCGFLUSH" /\ zv_zilog
    \/ io[t].cmd \in {"BIO_WRITE", "BIO_DELETE"} /\ lv[t].sync
    \/ io[t].cmd = "write" /\ (lv[t].sync \/ lv[t].iosync)
    \/ io[t].cmd = "DIOCGDELETE" /\ lv[t].sync /\ lv[t].fx # {}
\* this step is the call of zil_commit by the thread
Committing(t) == lv'[t].commits = lv[t].commits + 1

\* C16 as stated: a request that asks for durability commits the log exactly
\* once, and any other request never; the commit comes after the data
\* transactions of the request, while the request holds its range lock and
\* the suspend lock, and before the request completes.
C16_CommitUnderLocks ==
    /\ [](\A t \in Users :
            Done(t) => lv[t].commits = IF Demand(t) THEN 1 ELSE 0)
    /\ [][\A t \in Users :
            Committing(t) =>
                /\ lv'[t].fx = lv[t].fx /\ pc'[t] = "ret"
                /\ t \in zv_suspend_lock.r
                /\ HasSpan(t) => HoldsRange(t)]_vars

\* C16 as amended: a request that asks for durability and was carried out
\* commits the log exactly once, and any other request never; the commit
\* comes after the data transactions of the request and after the release of
\* its range lock, while the request holds the suspend lock, and before the
\* request completes.
C16_CommitUnderSuspendLock ==
    /\ [](\A t \in Users :
            Done(t) => lv[t].commits = IF Owed(t) THEN 1 ELSE 0)
    /\ [][\A t \in Users :
            Committing(t) =>
                /\ lv'[t].fx = lv[t].fx /\ pc'[t] = "ret"
                /\ t \in zv_suspend_lock.r
                /\ ~HoldsRange(t)]_vars

\* a write of two chunks under sync=always has committed the log once
C16_Witness ==
    \E t \in Users :
        /\ Done(t) /\ io[t].cmd \in Writes /\ lv[t].sync
        /\ lv[t].completed = 2 /\ lv[t].commits = 1

\* C17: no request completes with the checksum error: a checksum failure of
\* the object store is reported to the caller as EIO on every I/O path.
C17_NoChecksumError ==
    \A t \in Users : Done(t) => lv[t].err # "ECKSUM"

\* ------------------------------------------------------------ the rename
\* this step is zvol_os_rename_minor: the name of a named volume changes
Renaming == zv_name # NoName /\ zv_name' # zv_name
\* this step is a call of zvol_last_close: the object set is disowned
LastClosing == zv_objset /\ ~zv_objset' /\ ~zv_zilog'
\* the table and the hash agree with the name after the step
Rehashed ==
    /\ zv_hash' = zvol_name_hash(zv_name')
    /\ zv_hlink' = ZVOL_HT_HEAD(zvol_name_hash(zv_name'))
\* the open count and the exclusive flag after a rename: as they were for a
\* provider; zero and clear for a device, whose openers, if it had any, were
\* closed by one call of zvol_last_close
RenamedOpeners ==
    /\ zv_volmode = GEOM =>
        /\ zv_open_count' = zv_open_count
        /\ (ZVOL_EXCL \in zv_flags') = (ZVOL_EXCL \in zv_flags)
    /\ zv_volmode = DEV =>
        /\ zv_open_count' = 0 /\ ZVOL_EXCL \notin zv_flags'
        /\ zv_open_count > 0 => LastClosing

\* C18 as stated: a rename moves the volume to the bucket of the hash of the
\* new name and leaves it with a new handle that points at it; a provider
\* keeps its open count and exclusive flag; a device ends with open count 0,
\* the exclusive flag clear, and its openers closed by one last close.
C18_RenameRecreatesHandle ==
    [][Renaming => /\ Rehashed
                   /\ zsd_cdev' /\ private'
                   /\ RenamedOpeners]_vars

\* C18 as amended: the same, but the new handle of a device may fail to be
\* made, and then the volume is left with no handle.
C18_RenameMayLoseHandle ==
    [][Renaming => /\ Rehashed
                   /\ zv_volmode = GEOM => zsd_cdev' /\ private'
                   /\ zv_volmode = DEV => (private' = zsd_cdev')
                   /\ RenamedOpeners]_vars

\* a device with an exclusive opener, about to be renamed
C18_Witness ==
    /\ zv_volmode = DEV /\ zsd_cdev
    /\ zv_open_count > 0 /\ ZVOL_EXCL \in zv_flags
    /\ zv_hlink # ZVOL_HT_HEAD(zvol_name_hash(CHOOSE n \in Names : n # zv_name))
    /\ ENABLED zvol_os_rename_minor

\* ------------------------------------------- first open and last close
\* the thread is at the test of the open count that precedes zvol_first_open
AtFirstOpen(t) == pc[t] \in {"go_first", "co_first"}
\* this step is a call of zvol_first_open by the thread: it owns the object
\* set, or fails
FirstOpening(t) ==
    /\ AtFirstOpen(t)
    /\ \/ ~zv_objset /\ zv_objset'
       \/ pc'[t] \in {"go_out", "co_out"}

\* C19: zvol_first_open is called with the open count zero, by a thread that
\* holds zv_state_lock and holds the suspend lock as reader, so no thread
\* holds the suspend lock as writer during the call; a thread that waited for
\* the suspend lock and then finds the open count not zero has released the
\* suspend lock again, and calls no zvol_first_open.
C19_FirstOpenUnderSuspendLock ==
    /\ [](\A t \in Users :
            AtFirstOpen(t) =>
                /\ zv_state_lock = t
                /\ zv_open_count = 0 => t \in zv_suspend_lock.r
                /\ zv_open_count # 0 => t \notin zv_suspend_lock.r
                /\ t \in zv_suspend_lock.r => zv_suspend_lock.w = NoThread)
    /\ [][\A t \in Users :
            FirstOpening(t) =>
                /\ zv_open_count = 0
                /\ t \in zv_suspend_lock.r /\ t \in zv_suspend_lock'.r
                /\ zv_suspend_lock.w = NoThread
                /\ zv_suspend_lock'.w = NoThread]_vars

\* a first open has owned the object set, under the suspend lock, while a
\* second opener waits
C19_Witness ==
    \E t, u \in Users :
        /\ t # u
        /\ pc[t] \in {"go_checks", "co_checks"}
        /\ zv_open_count = 0 /\ zv_objset
        /\ t \in zv_suspend_lock.r /\ zv_state_lock = t
        /\ pc[u] \in {"go_lock", "co_lock"}

\* C20: every call of zvol_last_close, from a close that takes the open count
\* to zero, from an open that undoes its first open, and from a rename that
\* closes the openers of a device, is made by a thread that holds the suspend
\* lock as reader, so never while a thread holds the suspend lock as writer.
C20_LastCloseUnderSuspendLock ==
    [][LastClosing =>
        /\ \E t \in Users : pc'[t] # pc[t] /\ t \in zv_suspend_lock'.r
        /\ zv_suspend_lock.w = NoThread /\ zv_suspend_lock'.w = NoThread]_vars

\* ------------------------------------ one consumer through its whole life
\* one consumer opens, issues requests and closes, beside creation, rename,
\* suspension, the namespace lock and removal
OneNext ==
    \/ \E t \in LiveUsers : OpenClose(t)
    \/ \E t \in ReqUsers : ReqStep(t)
    \/ Removal
    \/ Administration

SpecOne == Init /\ [][OneNext]_vars


\* --------------------------------------------------------- the lock order
\* the thread is at a rw_enter of the suspend lock, which may block
AtSuspendWait(t) ==
    pc[t] \in {"go_wait", "co_wait", "gc_wait", "cc_wait", "st_enter",
               "cr_enter", "cw_enter", "fl_enter", "dl_enter", "ez_wait"}
\* the thread is at a mutex_enter of zv_state_lock, which may block
AtStateWait(t) ==
    pc[t] \in {"go_lock", "co_lock", "gc_lock", "cc_lock", "go_relock",
               "co_relock", "gc_relock", "cc_relock"}
\* the thread holds the suspend lock
HoldsSuspend(t) == t \in zv_suspend_lock.r \/ zv_suspend_lock.w = t
\* this step gives the thread the suspend lock, or zv_state_lock
Acquires(t) ==
    \/ ~HoldsSuspend(t) /\ (t \in zv_suspend_lock'.r \/ zv_suspend_lock'.w = t)
    \/ zv_state_lock # t /\ zv_state_lock' = t

\* C21: no thread waits for the suspend lock while it holds zv_state_lock: a
\* thread that needs both and cannot take the suspend lock at once releases
\* zv_state_lock, waits, takes zv_state_lock again and tests the open count
\* again; and no thread takes, or waits for, the suspend lock or
\* zv_state_lock while it holds a range of the range lock.
C21_LockOrder ==
    /\ [](\A t \in Users :
            /\ AtSuspendWait(t) => zv_state_lock # t
            /\ HoldsRange(t) => ~AtSuspendWait(t) /\ ~AtStateWait(t))
    /\ [][\A t \in Users :
            /\ Acquires(t) => ~HoldsRange(t)
            /\ pc[t] \in {"go_wait", "co_wait", "gc_wait", "cc_wait"}
               /\ pc'[t] # pc[t] =>
                    /\ pc'[t] \in {"go_relock", "co_relock", "gc_relock",
                                   "cc_relock"}
                    /\ t \in zv_suspend_lock'.r /\ zv_state_lock' # t]_vars

\* a first open waits for the suspend lock, which an administrative thread
\* holds, and zv_state_lock is free
C21_Witness ==
    \E t \in Users :
        /\ pc[t] \in {"go_wait", "co_wait"}
        /\ zv_suspend_lock.w = Admin /\ zv_state_lock = NoThread


\* ------------------------------------------------- the namespace lock
\* the thread has failed to take spa_namespace_lock and yields
AtYield(t) == pc[t] \in {"go_yield", "co_yield"}
\* the thread holds none of the locks
HoldsNoLock(t) ==
    /\ zv_state_lock # t /\ ~HoldsSuspend(t)
    /\ t \notin zvol_state_lock.r /\ zvol_state_lock.w # t
    /\ spa_namespace_lock # t

\* C22: a first open does not wait for spa_namespace_lock: it calls
\* zvol_first_open with the lock free or owned by its caller; a thread that
\* could not take the lock yields with no lock held and no suspend lock left
\* to release, and goes on at retry; and whenever a thread is at its first
\* open, after a retry as before one, the device still points at the volume
\* and the volume is not dying, nor, for a provider, being removed.
C22_YieldWithNoLock ==
    /\ [](\A t \in Users :
            /\ AtYield(t) => HoldsNoLock(t) /\ ~lv[t].drop_suspend
            /\ AtFirstOpen(t) => private /\ zv_mem = "live" /\ ~zso_dying
            /\ pc[t] = "go_first" => ZVOL_REMOVING \notin zv_flags)
    /\ [][\A t \in Users :
            /\ AtYield(t) /\ pc'[t] # pc[t] =>
                pc'[t] \in {"go_retry", "co_retry"}
            /\ AtFirstOpen(t) /\ pc'[t] \in {"go_yield", "co_yield"} =>
                spa_namespace_lock \notin {NoThread, t}
            /\ FirstOpening(t) =>
                spa_namespace_lock = (IF lv[t].ns_owned THEN t
                                      ELSE NoThread)]_vars

\* a first open yields because another thread holds spa_namespace_lock
C22_Witness ==
    \E t \in Users :
        /\ AtYield(t) /\ spa_namespace_lock = External
        /\ zv_open_count = 0 /\ zv_state_lock = NoThread


\* ----------------------------------------------------- the opening of the log
\* the thread is inside zvol_ensure_zilog
InEnsureZilog(t) == pc[t] \in {"ez_try", "ez_wait", "ez_open"}
\* this step is a call of zil_open
ZilOpening == zil_opens' > zil_opens

\* C23: however the first writers interleave, zil_open is called once while
\* the volume is open, by a thread that holds the suspend lock as writer and
\* has found the handle null as writer; a thread whose upgrade failed holds no
\* suspend lock while it waits to be writer; and every thread leaves
\* zvol_ensure_zilog with the handle set and the suspend lock held as reader.
C23_LogOpenedOnce ==
    /\ [](/\ zil_opens = (IF zv_zilog THEN 1 ELSE 0)
          /\ \A t \in Users :
                /\ pc[t] = "ez_wait" => ~HoldsSuspend(t)
                /\ pc[t] = "ez_open" => zv_suspend_lock = [r |-> {}, w |-> t])
    /\ [][/\ ZilOpening =>
                /\ ~zv_zilog /\ zil_opens' = 1
                /\ \E t \in Users : /\ pc[t] = "ez_open" /\ pc'[t] # "ez_open"
                                    /\ zv_suspend_lock = [r |-> {}, w |-> t]
          /\ \A t \in Users :
                InEnsureZilog(t) /\ ~InEnsureZilog(t)' =>
                    /\ zv_zilog'
                    /\ zv_suspend_lock'.w = NoThread
                    /\ t \in zv_suspend_lock'.r \/ pc'[t] = "ret"]_vars

\* two first writers: the one whose upgrade failed has waited, is writer
\* now, and finds the log opened by the other
C23_Witness ==
    \E t \in Users :
        /\ pc[t] = "ez_open" /\ zv_suspend_lock.w = t
        /\ zv_zilog /\ zil_opens = 1


\* ------------------------------------------- the end of a write transaction
\* the ranges <<off, len>> of the effects of one kind of a request
Spans(t, kind) == {<<f[2], f[3]>> : f \in {g \in lv[t].fx : g[1] = kind}}

\* C24 as stated: the transaction of a chunk is committed exactly when it was
\* admitted and the chunk was written to the store, and aborted otherwise; no
\* transaction is ended twice; only committed chunks have a log record.
C24_CommitIffWritten ==
    \A t \in Users :
        Done(t) /\ io[t].cmd \in Writes =>
            /\ Spans(t, "tx_commit") = Spans(t, "write")
            /\ Spans(t, "tx_commit") \cap Spans(t, "tx_abort") = {}
            /\ Spans(t, "log_write") \subseteq Spans(t, "tx_commit")

\* C24 as amended: the transaction of a chunk is aborted exactly when it was
\* not admitted and committed otherwise, also when the write of the chunk to
\* the store failed, which only the character device can see; no transaction
\* is ended twice; the chunks with a log record are the chunks written, all of
\* them committed; a transaction that failed either way is the last of its
\* request, which reports an error.
C24_CommitIffAdmitted ==
    \A t \in Users :
        Done(t) /\ io[t].cmd \in Writes =>
            LET unwritten == Spans(t, "tx_commit") \ Spans(t, "write")
                failed    == unwritten \cup Spans(t, "tx_abort")
            IN  /\ Spans(t, "write") \subseteq Spans(t, "tx_commit")
                /\ Spans(t, "tx_commit") \cap Spans(t, "tx_abort") = {}
                /\ Spans(t, "log_write") = Spans(t, "write")
                /\ unwritten # {} => io[t].cmd = "write"
                /\ Cardinality(failed) <= 1
                /\ failed # {} => lv[t].err # "OK"
                /\ \A f \in failed :
                        f[1] = io[t].off + lv[t].completed

\* a write to the character device whose first chunk was admitted and could
\* not be written: its transaction is committed, and nothing is logged
C24_Witness ==
    \E t \in Users :
        /\ Done(t) /\ io[t].cmd = "write" /\ lv[t].err # "OK"
        /\ Spans(t, "tx_abort") = {}
        /\ Spans(t, "tx_commit") = {<<io[t].off, 1>>}
        /\ Spans(t, "log_write") = {}


\* ------------------------------------------- the range lock of a rejected request
\* the request of the thread returns with this step
Returning(t) == pc[t] # "ret" /\ pc'[t] = "ret"
\* the places after zfs_rangelock_enter of a read or a write
AfterRange == {"st_access", "st_commit", "cr_access", "cw_access", "cw_commit"}
\* the read or write passed the checks of removal and of a read-only volume
Admitted(t) == io'[t].cmd \in Transfers /\ lv'[t].err \notin {"ENXIO", "EROFS"}
\* inside its section the thread holds the range lock over the span asked for
RangeAsAsked ==
    \A t \in Users :
        pc[t] \in {"st_access", "cr_access", "cw_access"} =>
            \E r \in zv_rangelock :
                r.t = t /\ r.off = io[t].off /\ r.len = io[t].len

\* C25 as stated: every read or write that passes the checks of removal and
\* of a read-only volume takes the range lock over the span asked for and
\* releases it before it returns, also when it has no bytes or starts at or
\* past the end of the volume.
C25_RangeLockAlways ==
    /\ [](RangeAsAsked /\ \A t \in Users : Done(t) => ~HoldsRange(t))
    /\ [][\A t \in Users :
            Returning(t) /\ Admitted(t) => pc[t] \in AfterRange]_vars

\* C25 as amended: such a request takes the range lock over the span asked for
\* and releases it before it returns, also when it has no bytes, unless it is
\* rejected for its offset: a request of some bytes that starts at or past the
\* end through zvol_strategy_impl, or past the end through zvol_cdev_read or
\* zvol_cdev_write, returns without the range lock ever taken.
C25_RangeLockUnlessPastEnd ==
    /\ [](RangeAsAsked /\ \A t \in Users : Done(t) => ~HoldsRange(t))
    /\ [][\A t \in Users :
            Returning(t) /\ Admitted(t) =>
                LET past == /\ io'[t].len > 0
                            /\ IF lv'[t].fn = "zvol_strategy_impl"
                               THEN io'[t].off >= VolSize
                               ELSE io'[t].off > VolSize
                IN  /\ past => pc[t] \notin AfterRange /\ ~HoldsRange(t)
                    /\ ~past => pc[t] \in AfterRange]_vars

\* a request of no bytes past the end of the volume holds the range lock
C25_Witness ==
    \E t \in Users :
        /\ pc[t] = "st_access" /\ io[t].cmd \in Transfers
        /\ io[t].len = 0 /\ io[t].off > VolSize
        /\ \E r \in zv_rangelock : r.t = t /\ r.off = io[t].off /\ r.len = 0


\* ------------------------------------------------- the dispatch of a request
\* the places <<q, i>> of the tasks in the queues
Tasks == {qi \in (DOMAIN tqs_taskq) \X (1..Cardinality(Users)) :
            qi[2] <= Len(tqs_taskq[qi[1]])}
TaskAt(qi) == tqs_taskq[qi[1]][qi[2]]
\* the requests of one bucket of offsets share a queue
Bucket(off) == off \div 2^ZVOL_TASKQ_OFFSET_SHIFT
\* zvol_strategy_impl starts for the request with this step
Starting(t) == pc[t] # "st_enter" /\ pc'[t] = "st_enter"
\* the queues other than q are as they were
OtherQueuesKept(q) ==
    \A r \in DOMAIN tqs_taskq : r # q => tqs_taskq'[r] = tqs_taskq[r]

\* C26: a request handed to zvol_geom_bio_strategy for a volume runs in the
\* calling thread exactly when sync is set or zvol_request_sync is, and is
\* otherwise put at the tail of exactly one queue, the one of index
\* cityhash3(volume, CPU, offset >> shift) mod the number of queues, so that
\* requests of one volume, CPU and bucket share a queue; a queued request is
\* in one queue once, is started only from the head of its queue, which it
\* leaves as it starts, and so is run once, in the order of submission, and
\* completes only after it ran; a request for no volume completes with ENXIO
\* and is never put in a queue nor run.
C26_DispatchOnce ==
    /\ [](/\ \A t \in Users :
                Cardinality({qi \in Tasks : TaskAt(qi).t = t}) =
                    IF pc[t] = "tq_queued" THEN 1 ELSE 0
          /\ \A qi \in Tasks :
                /\ ~zvol_request_sync
                /\ qi[1] = cityhash3(zv_addr, TaskAt(qi).cpu,
                                     Bucket(io[TaskAt(qi).t].off)) % tqs_cnt
                /\ qi[1] < tqs_cnt
          /\ \A qi, rj \in Tasks :
                /\ TaskAt(qi).cpu = TaskAt(rj).cpu
                /\ Bucket(io[TaskAt(qi).t].off) = Bucket(io[TaskAt(rj).t].off)
                => qi[1] = rj[1])
    /\ [][\A t \in Users :
            /\ pc[t] = "bs_strategy" /\ pc'[t] # pc[t] =>
                IF ~private
                THEN /\ pc'[t] = "ret" /\ lv'[t].err = "ENXIO"
                     /\ tqs_taskq' = tqs_taskq
                ELSE IF lv[t].bsync \/ zvol_request_sync
                THEN Starting(t) /\ tqs_taskq' = tqs_taskq
                ELSE /\ pc'[t] = "tq_queued"
                     /\ \E q \in DOMAIN tqs_taskq, cpu \in Cpus :
                            /\ tqs_taskq'[q] =
                                 Append(tqs_taskq[q], [t |-> t, cpu |-> cpu])
                            /\ OtherQueuesKept(q)
            /\ pc[t] = "tq_queued" /\ pc'[t] # pc[t] => Starting(t)
            /\ Starting(t) /\ pc[t] = "tq_queued" =>
                \E q \in DOMAIN tqs_taskq :
                    /\ tqs_taskq[q] # <<>> /\ Head(tqs_taskq[q]).t = t
                    /\ tqs_taskq'[q] = Tail(tqs_taskq[q])
                    /\ OtherQueuesKept(q)
            /\ Starting(t) => pc[t] \in {"bs_strategy", "tq_queued"}
            /\ Returning(t) => pc[t] # "tq_queued"]_vars

\* two requests submitted on one CPU for one bucket of offsets wait in one
\* queue, the first submitted at its head
C26_Witness ==
    \E q \in DOMAIN tqs_taskq :
        /\ Len(tqs_taskq[q]) = 2
        /\ tqs_taskq[q][1].cpu = tqs_taskq[q][2].cpu
        /\ io[tqs_taskq[q][1].t].off # io[tqs_taskq[q][2].t].off
        /\ Bucket(io[tqs_taskq[q][1].t].off) = Bucket(io[tqs_taskq[q][2].t].off)
        /\ \A t \in Users : pc[t] = "tq_queued"


\* ------------------------------------- the suspend lock under fair scheduling
\* the requests of one sector at the start of the volume
BarrierStep(t) ==
    IoStep(t) /\ (io'[t] = NoIo \/ (io'[t].off = 0 /\ io'[t].len = 1))

BarrierNext ==
    \/ \E t \in Users : BarrierStep(t)
    \/ zvol_suspend
    \/ zvol_resume

\* Every thread keeps running, every call into the object store and the log
\* returns, the administrative thread releases the suspend lock, and a thread
\* waiting in rw_enter(RW_WRITER) gets the lock if it is free again and again.
BarrierFairness ==
    /\ \A t \in Users : WF_vars(BarrierStep(t))
    /\ \A t \in Users : SF_vars(zvol_ensure_zilog_wait(t))
    /\ WF_vars(zvol_resume)

SpecBarrier == IOInit /\ [][BarrierNext]_vars /\ BarrierFairness

InOpen(t) == lv[t].fn \in {"zvol_geom_open", "zvol_cdev_open"}
\* the thread takes a step of its open
OpenStep(t) == InOpen(t) /\ pc'[t] # pc[t] /\ pc[t] # "ret"
\* the step changes the open count or the exclusive flag
CountOrExclChanged ==
    \/ zv_open_count' # zv_open_count
    \/ (ZVOL_EXCL \in zv_flags') # (ZVOL_EXCL \in zv_flags)

\* C28: an open that returns an error has left the open count and the
\* exclusive flag alone: only the step at which the open succeeds changes
\* them, and the result of an open does not change once it left the checks;
\* a failing open that finds no opener after its own zvol_first_open runs
\* zvol_last_close and wakeup before it releases the state lock, so that the
\* object set is null again; an open whose zvol_first_open failed leaves the
\* object set null.
C28_FailedOpenNoEffect ==
    /\ [](\A t \in Users :
            pc[t] \in {"go_checks", "co_checks"} /\ zv_open_count = 0 =>
                zv_objset /\ zv_state_lock = t)
    /\ [][\A t \in Users :
            OpenStep(t) =>
                /\ CountOrExclChanged =>
                    /\ pc[t] \in {"go_checks", "co_checks"}
                    /\ lv'[t].err = "OK"
                /\ pc[t] \in {"go_out", "co_out"} =>
                    lv'[t].err = lv[t].err /\ pc'[t] = "ret"
                /\ lv'[t].err # "OK" /\ zv_open_count = 0
                   /\ pc[t] \in {"go_checks", "co_checks"} =>
                    /\ ~zv_objset' /\ ~zv_zilog'
                    /\ wchan' = Wakeup(wchan)
                    /\ zv_state_lock' = NoThread
                /\ lv'[t].err # "OK" /\ pc[t] \in {"go_first", "co_first"} =>
                    ~zv_objset']_vars

\* an open for writing of a read-only volume without openers has failed after
\* its zvol_first_open: the object set is null and the count is zero
C28_Witness ==
    \E t \in Users :
        /\ pc[t] \in {"go_out", "co_out"} /\ lv[t].err = "EROFS"
        /\ t \in zv_suspend_lock.r
        /\ zv_open_count = 0 /\ ~zv_objset /\ zv_flags = {ZVOL_RDONLY}


\* ------------------------------------------------------------ lock balance
\* the thread is outside its handler, has returned from it, or is at the
\* retry of an open
Outside(t) ==
    pc[t] \in {"idle", "ret", "go_retry", "co_retry", "go_yield", "co_yield"}

Chunks(t) == {f \in lv[t].fx : f[1] \in {"read", "write"}}

\* a chunk that starts inside the volume and ends past its end
CrossesEnd(f) == f[2] < VolSize /\ f[2] + f[3] > VolSize

\* C30: no path reads or writes the object store at or beyond the volume
\* size: every chunk of zvol_strategy_impl, zvol_cdev_read and
\* zvol_cdev_write ends at the volume size at the latest and is of the
\* per-transaction maximum at most, also when the request starts inside the
\* volume and extends past its end.
C30_ChunksInsideVolume ==
    \A t \in Users :
        io[t] # NoIo /\ io[t].cmd \in Transfers =>
            \A f \in Chunks(t) :
                /\ f[2] + f[3] <= VolSize
                /\ f[3] <= zvol_maxphys

\* C30 as amended: every chunk of the three paths starts inside the volume,
\* lies inside the request and is of the per-transaction maximum at most.
\* The chunks of zvol_cdev_read and zvol_cdev_write end at the volume size at
\* the latest. A chunk of zvol_strategy_impl is MIN(resid, zvol_maxphys) and
\* is not cut at the end of the volume: the last chunk of a request that
\* starts inside the volume and extends past its end may end past the end,
\* by less than the per-transaction maximum.
C30_ChunksStartInsideVolume ==
    \A t \in Users :
        io[t] # NoIo /\ io[t].cmd \in Transfers =>
            \A f \in Chunks(t) :
                /\ f[3] >= 1 /\ f[3] <= zvol_maxphys
                /\ f[2] >= io[t].off /\ f[2] < VolSize
                /\ f[2] + f[3] <= io[t].off + io[t].len
                /\ io[t].cmd \in {"read", "write"} => f[2] + f[3] <= VolSize
                /\ CrossesEnd(f) =>
                    /\ io[t].cmd \in {"BIO_READ", "BIO_WRITE"}
                    /\ \A g \in Chunks(t) : g[2] <= f[2]

\* a write through zvol_strategy_impl that starts inside the volume and
\* extends past its end has moved a chunk across the end
C30_Witness ==
    \E t \in Users :
        /\ Done(t) /\ io[t] # NoIo /\ io[t].cmd = "BIO_WRITE"
        /\ io[t].off < VolSize /\ io[t].off + io[t].len > VolSize
        /\ \E f \in Chunks(t) : CrossesEnd(f)
        /\ lv[t].completed = io[t].len

\* ------------------------------------------------- every thread together
\* what a consumer asks for: one reference at a time, opened for writing or
\* for reading, and requests that the object store completes
Quiet(t) ==
    /\ pc[t] = "idle" =>
        /\ lv'[t].count <= 1
        /\ lv'[t].flag \subseteq {FWRITE}
        /\ lv'[t].fn \in Opens => held[t] = 0
    /\ lv'[t].err \notin {"EIO", "ECKSUM"}

\* a step of a consumer: of an open, of a close, or of a request of one
\* sector at the start of the volume
LockStep(t) == (OpenClose(t) \/ BarrierStep(t)) /\ Quiet(t)

\* a step of the removal that has begun
RemovalStep ==
    \/ zvol_remove_minor_find
    \/ zvol_wait_close
    \/ zvol_wait_close_timeout
    \/ zvol_wait_close_wake
    \/ zvol_os_free

\* the thread that creates the minor of another volume
Inserter == "ins"

\* lines 1523-1526: zvol_os_create_minor of another volume takes
\* zvol_state_lock as writer for zvol_insert ...
zvol_insert_enter ==
    /\ RwCanWrite(zvol_state_lock)
    /\ zvol_state_lock' = [zvol_state_lock EXCEPT !.w = Inserter]
    /\ UNCHANGED <<volVars, stateVars, zso_dying, zv_state_lock,
                   zv_suspend_lock, spa_namespace_lock, ioVars, taskqVars,
                   pc, lv>>

\* ... and releases it
zvol_insert_exit ==
    /\ zvol_state_lock.w = Inserter
    /\ zvol_state_lock' = [zvol_state_lock EXCEPT !.w = NoThread]
    /\ UNCHANGED <<volVars, stateVars, zso_dying, zv_state_lock,
                   zv_suspend_lock, spa_namespace_lock, ioVars, taskqVars,
                   pc, lv>>

\* a volume that two consumers hold open and that is being removed
LockInit == IOInit /\ zv_flags = {}

\* two consumers that open, close and issue requests, the removal, and the
\* threads that insert another volume, that suspend the volume and that hold
\* spa_namespace_lock
LockNext ==
    \/ \E t \in Users : LockStep(t)
    \/ RemovalStep
    \/ zvol_insert_enter
    \/ zvol_insert_exit
    \/ zvol_suspend
    \/ zvol_resume
    \/ spa_namespace_enter
    \/ spa_namespace_exit

SpecLocks == LockInit /\ [][LockNext]_vars

\* ---------------------------------------------------------------- C31
\* the thread is inside a handler
InHandler(t) == pc[t] # "idle"
\* the thread is at rw_enter(&zvol_state_lock, RW_READER), and a writer holds
\* the lock
RegistryWait(t) ==
    /\ pc[t] \in {"go_retry", "co_retry", "gc_enter", "cc_enter"}
    /\ ~RwCanRead(zvol_state_lock)
\* the thread is at mutex_enter(&zv->zv_state_lock), and the lock is owned
StateWait(t) == AtStateWait(t) /\ zv_state_lock # NoThread
\* the thread is at rw_enter of zv_suspend_lock, as writer in
\* zvol_ensure_zilog and as reader elsewhere, and the lock is not free for it
SuspendWait(t) ==
    /\ AtSuspendWait(t)
    /\ IF pc[t] = "ez_wait" THEN ~RwCanWrite(zv_suspend_lock)
       ELSE ~RwCanRead(zv_suspend_lock)
\* the thread is at zfs_rangelock_enter, and another thread holds a range
\* that bars it
RangeWait(t) == \E u \in Users \ {t} : BlockedBy(t, u) /\ HoldsRange(u)
\* the thread waits for a lock
LockWait(t) ==
    RegistryWait(t) \/ StateWait(t) \/ SuspendWait(t) \/ RangeWait(t)
\* the removal waits for zvol_state_lock or for zv_state_lock
RemovalWait ==
    \/ /\ pc[Remover] = "rm_find"
       /\ ~RwCanWrite(zvol_state_lock) \/ zv_state_lock # NoThread
    \/ /\ pc[Remover] = "wc_enter" \/ (pc[Remover] = "wc_sleep" /\ wchan # "asleep")
       /\ zv_state_lock # NoThread
\* a thread that is inside a handler, or that holds a lock, can take a step
Progress ==
    \/ \E t \in Users : InHandler(t) /\ LockStep(t)
    \/ pc[Remover] # "idle" /\ RemovalStep
    \/ zvol_insert_exit
    \/ zvol_resume
    \/ spa_namespace_exit

\* C31: however opens, closes, requests (with first writers that upgrade the
\* suspend lock in zvol_ensure_zilog), the removal and the threads that hold
\* the suspend lock as writer or spa_namespace_lock interleave, no state is
\* reached in which a thread waits for a lock (zvol_state_lock, the suspend
\* lock, zv_state_lock, spa_namespace_lock, a range) and no thread can take a
\* step. A thread inside a handler that cannot take a step waits for a lock
\* that another thread holds; spa_namespace_lock is never waited for.
C31_NoDeadlock ==
    /\ \A t \in Users : InHandler(t) /\ ~ENABLED LockStep(t) => LockWait(t)
    /\ pc[Remover] # "idle" /\ ~ENABLED RemovalStep => RemovalWait
    /\ (RemovalWait \/ \E t \in Users : LockWait(t)) => ENABLED Progress

\* a first writer that could not upgrade the suspend lock waits for it as
\* writer while the other consumer, inside a request, holds it; the removal
\* waits for the last close
C31_Witness ==
    \E t, u \in Users :
        /\ pc[t] = "ez_wait" /\ LockWait(t) /\ ~ENABLED LockStep(t)
        /\ u # t /\ HoldsSuspend(u) /\ ENABLED LockStep(u)
        /\ pc[Remover] = "wc_sleep"

====
